---- MODULE Spec2Model ----
(***************************************************************************)
(* Model of the consensus orchestration core of aicx:                      *)
(*   consensus/runner.py, consensus/stop.py, consensus/errors.py,          *)
(*   consensus/collection.py, consensus/digest.py, context/budget.py,      *)
(*   context/tokens.py, context/truncation.py and types.py.                *)
(*                                                                         *)
(* Texts are sequences of one-character strings; model names are natural   *)
(* numbers whose numeric order stands for the lexical order of the names.  *)
(* An optional value (None or a value) is a sequence of length 0 or 1.     *)
(***************************************************************************)
EXTENDS Integers, Sequences, FiniteSets, TLC

VARIABLES
    config,             \* RunConfig plus the no_consensus_summary argument
    pc,                 \* position inside the running function
    idx,                \* number of sorted models already visited in the current collection
    round_responses,    \* successes of the collection in progress (responses / critiques)
    round_failed,       \* failed model names of the collection in progress
    all_responses,      \* run_consensus: all_responses
    round_indices,      \* run_consensus: round_indices
    all_failed_models,  \* run_consensus: all_failed_models
    current_round,      \* run_consensus: current_round
    previous_candidate, \* run_consensus: previous_candidate (optional text)
    mediator_state,     \* run_consensus: mediator_state (optional MediatorState)
    digest,             \* run_consensus: digest
    budget,             \* run_consensus: budget (optional ContextBudget)
    responses_for_mediator, \* run_consensus: responses_for_mediator
    stop_reason,        \* reason returned by the last should_stop call that stopped the loop
    result,             \* optional ConsensusResult (the value returned)
    error,              \* optional raised exception
    calls,              \* log of provider / call_fn invocations, in order
    probe               \* arguments and returned value of a function called on its own

vars == << config, pc, idx, round_responses, round_failed, all_responses,
           round_indices, all_failed_models, current_round, previous_candidate,
           mediator_state, digest, budget, responses_for_mediator, stop_reason,
           result, error, calls, probe >>

\* ------------------------------------------------------------------------
\* Bounds of the model
\* ------------------------------------------------------------------------
MaxRounds == 4
\* The largest number of models handed to the collector, and of distinct names.
MaxModels == 3
\* The largest max_retries of a retry configuration.
MaxRetries == 3
\* The largest max_tokens of a budget constructed on its own, and the largest
\* number of track_usage calls made on it.
MaxTokens == 4
MaxTracked == 3
\* The largest number of responses handed to truncate_oldest_rounds.
MaxResponses == 3
\* The largest number of responses handed to build_digest, and the largest
\* number of update_digest_from_critiques calls made on one digest.
MaxDigestResponses == 2
MaxUpdates == 2
\* The largest number of words of a text handed to compute_change_ratio.
MaxWords == 3
\* The largest number of critiques handed to _analyze_critiques.
MaxCritiques == 2

\* ------------------------------------------------------------------------
\* Generic helpers
\* ------------------------------------------------------------------------
None == << >>
Some(x) == << x >>
IsNone(o) == Len(o) = 0
Get(o) == o[1]

Range(s) == { s[i] : i \in 1..Len(s) }

Max2(a, b) == IF a >= b THEN a ELSE b
Min2(a, b) == IF a <= b THEN a ELSE b

\* The element of a singleton set; { F(v) : v \in { e } } computes e once.
TheOnly(S) == CHOOSE v \in S : TRUE

RECURSIVE SumFrom(_, _)
SumFrom(s, i) == IF i > Len(s) THEN 0 ELSE s[i] + SumFrom(s, i + 1)
SumSeq(s) == TheOnly({ SumFrom(v, 1) : v \in { s } })

RECURSIVE FlattenFrom(_, _)
FlattenFrom(ss, i) == IF i > Len(ss) THEN << >> ELSE ss[i] \o FlattenFrom(ss, i + 1)
Flatten(ss) == TheOnly({ FlattenFrom(v, 1) : v \in { ss } })

Take(s, n) == SubSeq(s, 1, Min2(n, Len(s)))

IsPrefix(p, s) == Len(p) <= Len(s) /\ SubSeq(s, 1, Len(p)) = p

\* Python's sorted(key=name), a stable sort: the model at position i is the one
\* with exactly i - 1 models before it in (name, input position) order.
sorted_models_in_config_order(ms) == ms

sorted_models(ms) ==
    [ i \in 1..Len(ms) |->
        ms[CHOOSE k \in 1..Len(ms) :
              Cardinality({ j \in 1..Len(ms) :
                  ms[j] < ms[k] \/ (ms[j] = ms[k] /\ j < k) }) = i - 1] ]

IsAscending(s) == \A i \in 1..Len(s), j \in 1..Len(s) : i < j => s[i] <= s[j]
IsStrictlyAscending(s) == \A i \in 1..Len(s), j \in 1..Len(s) : i < j => s[i] < s[j]

\* ------------------------------------------------------------------------
\* Texts
\* ------------------------------------------------------------------------
\* Characters in code-point order, as Python compares strings.
Alphabet == << "\n", " ", ".", "a", "b", "c" >>
CharRank(c) == CHOOSE i \in 1..Len(Alphabet) : Alphabet[i] = c
IsSpace(c) == c \in { " ", "\n" }

\* Python's str < str: lexicographic on code points.
RECURSIVE TextLess(_, _)
TextLess(a, b) ==
    IF Len(b) = 0 THEN FALSE
    ELSE IF Len(a) = 0 THEN TRUE
    ELSE IF a[1] = b[1] THEN TextLess(Tail(a), Tail(b))
    ELSE CharRank(a[1]) < CharRank(b[1])

\* str.split(): maximal runs of non-whitespace characters.
RECURSIVE SplitFrom(_, _)
SplitFrom(text, cur) ==
    IF Len(text) = 0 THEN (IF Len(cur) = 0 THEN << >> ELSE << cur >>)
    ELSE IF IsSpace(text[1])
         THEN (IF Len(cur) = 0 THEN << >> ELSE << cur >>) \o SplitFrom(Tail(text), << >>)
         ELSE SplitFrom(Tail(text), Append(cur, text[1]))

split(text) == SplitFrom(text, << >>)

\* ------------------------------------------------------------------------
\* types.py
\* ------------------------------------------------------------------------
\* approval_ratio and change_threshold are kept in hundredths.
quorum_rounded_down(cfg) == (Len(cfg.models) * cfg.approval_ratio) \div 100

quorum(cfg) == (Len(cfg.models) * cfg.approval_ratio + 99) \div 100

ValidRunConfig(cfg) ==
    /\ Len(cfg.models) >= 2
    /\ cfg.max_rounds >= 1
    /\ cfg.approval_ratio \in 0..100
    /\ cfg.change_threshold \in 0..100
    /\ (~IsNone(cfg.max_context_tokens) => Get(cfg.max_context_tokens) >= 1)

Response(name, answer, approve, critical, objections, missing, edits) ==
    [ model_name |-> name, answer |-> answer, approve |-> approve,
      critical |-> critical, objections |-> objections, missing |-> missing,
      edits |-> edits ]

MediatorState(candidate, approvals, criticals, summary) ==
    [ candidate_answer |-> candidate, approval_count |-> approvals,
      critical_objections |-> criticals, disagreement_summary |-> summary ]

\* ------------------------------------------------------------------------
\* consensus/stop.py
\* ------------------------------------------------------------------------
check_consensus_reached(approval_count, critical_objections, cfg) ==
    approval_count >= quorum(cfg) /\ Len(critical_objections) = 0

check_max_rounds_exceeded(round, cfg) == round > cfg.max_rounds

check_max_rounds_reached(round, cfg) == round >= cfg.max_rounds

RECURSIVE LevRow(_, _, _, _, _)
\* A cell computed from the insertion and the deletion only.
LevRow_without_substitution(c1, seq2, previous_row, current_row, j) ==
    IF j > Len(seq2) THEN current_row
    ELSE LET insertions == previous_row[j + 1] + 1
             deletions == current_row[j] + 1
             cell == Min2(insertions, deletions)
         IN TheOnly({ LevRow(c1, seq2, previous_row, row, j + 1) :
                        row \in { Append(current_row, cell) } })

\* One pass of the inner loop: fills current_row from previous_row for item c1.
LevRow(c1, seq2, previous_row, current_row, j) ==
    IF j > Len(seq2) THEN current_row
    ELSE LET insertions == previous_row[j + 1] + 1
             deletions == current_row[j] + 1
             substitutions == previous_row[j] + (IF c1 = seq2[j] THEN 0 ELSE 1)
             cell == Min2(Min2(insertions, deletions), substitutions)
         IN TheOnly({ LevRow(c1, seq2, previous_row, row, j + 1) :
                        row \in { Append(current_row, cell) } })

RECURSIVE LevRows(_, _, _, _)
LevRows(seq1, seq2, previous_row, i) ==
    IF i > Len(seq1) THEN previous_row
    ELSE TheOnly({ LevRows(seq1, seq2, row, i + 1) :
                     row \in { LevRow(seq1[i], seq2, previous_row, << i >>, 1) } })

_levenshtein_distance(a, b) ==
    LET seq1 == IF Len(a) < Len(b) THEN b ELSE a
        seq2 == IF Len(a) < Len(b) THEN a ELSE b
    IN IF Len(seq2) = 0 THEN Len(seq1)
       ELSE LevRows(seq1, seq2, [ k \in 1..(Len(seq2) + 1) |-> k - 1 ], 1)[Len(seq2) + 1]

\* compute_change_ratio as the pair (distance, max_length); the ratio is
\* distance / max_length, and 0 when max_length = 0.
change_distance(text1, text2) ==
    TheOnly({ _levenshtein_distance(words1, words2) :
                words1 \in { split(text1) }, words2 \in { split(text2) } })
change_max_length(text1, text2) == Max2(Len(split(text1)), Len(split(text2)))

\* The ratio as the fraction << numerator, denominator >>, lines 122-127.
compute_change_ratio_by_first_length(text1, text2) ==
    IF Len(split(text1)) = 0 THEN << 0, 1 >>
    ELSE << change_distance(text1, text2), Len(split(text1)) >>

compute_change_ratio(text1, text2) ==
    IF change_max_length(text1, text2) = 0 THEN << 0, 1 >>
    ELSE << change_distance(text1, text2), change_max_length(text1, text2) >>

check_at_or_below_change_threshold(previous, new, cfg) ==
    IF change_max_length(previous, new) = 0
    THEN 0 <= cfg.change_threshold
    ELSE change_distance(previous, new) * 100
             <= cfg.change_threshold * change_max_length(previous, new)

\* change_ratio < change_threshold, in exact arithmetic on hundredths.
check_below_change_threshold(previous, new, cfg) ==
    IF change_max_length(previous, new) = 0
    THEN 0 < cfg.change_threshold
    ELSE change_distance(previous, new) * 100
             < cfg.change_threshold * change_max_length(previous, new)

check_no_changes_proposed(critiques) ==
    \A i \in 1..Len(critiques) :
        /\ Len(critiques[i].objections) = 0
        /\ Len(critiques[i].missing) = 0
        /\ Len(critiques[i].edits) = 0

\* should_stop with the max-rounds check moved in front of the consensus check.
should_stop_max_rounds_first(round, approval_count, critical_objections, previous, new, critiques, cfg) ==
    IF check_max_rounds_reached(round, cfg)
    THEN << TRUE, "max_rounds_reached" >>
    ELSE IF check_consensus_reached(approval_count, critical_objections, cfg)
    THEN << TRUE, "consensus_reached" >>
    ELSE IF ~IsNone(previous) /\ check_below_change_threshold(Get(previous), new, cfg)
    THEN << TRUE, "below_change_threshold" >>
    ELSE IF check_no_changes_proposed(critiques)
    THEN << TRUE, "no_changes_proposed" >>
    ELSE << FALSE, "" >>

\* should_stop with the change-threshold check moved in front of the max-rounds check.
should_stop_threshold_before_max_rounds(round, approval_count, critical_objections, previous, new, critiques, cfg) ==
    IF check_consensus_reached(approval_count, critical_objections, cfg)
    THEN << TRUE, "consensus_reached" >>
    ELSE IF ~IsNone(previous) /\ check_below_change_threshold(Get(previous), new, cfg)
    THEN << TRUE, "below_change_threshold" >>
    ELSE IF check_max_rounds_reached(round, cfg)
    THEN << TRUE, "max_rounds_reached" >>
    ELSE IF check_no_changes_proposed(critiques)
    THEN << TRUE, "no_changes_proposed" >>
    ELSE << FALSE, "" >>

should_stop(round, approval_count, critical_objections, previous, new, critiques, cfg) ==
    IF check_consensus_reached(approval_count, critical_objections, cfg)
    THEN << TRUE, "consensus_reached" >>
    ELSE IF check_max_rounds_reached(round, cfg)
    THEN << TRUE, "max_rounds_reached" >>
    ELSE IF ~IsNone(previous) /\ check_below_change_threshold(Get(previous), new, cfg)
    THEN << TRUE, "below_change_threshold" >>
    ELSE IF check_no_changes_proposed(critiques)
    THEN << TRUE, "no_changes_proposed" >>
    ELSE << FALSE, "" >>


\* ------------------------------------------------------------------------
\* context/tokens.py, context/budget.py, context/truncation.py
\* ------------------------------------------------------------------------
estimate_tokens(text) == IF Len(text) = 0 THEN 0 ELSE (Len(text) + 3) \div 4

count_response_tokens(r) ==
    estimate_tokens(r.answer)
    + SumSeq([ i \in 1..Len(r.objections) |-> estimate_tokens(r.objections[i]) ])
    + SumSeq([ i \in 1..Len(r.missing) |-> estimate_tokens(r.missing[i]) ])
    + SumSeq([ i \in 1..Len(r.edits) |-> estimate_tokens(r.edits[i]) ])

sum_response_tokens(rs) == SumSeq([ i \in 1..Len(rs) |-> count_response_tokens(rs[i]) ])

ContextBudget(max_tokens, used_tokens, round_usage) ==
    [ max_tokens |-> max_tokens, used_tokens |-> used_tokens, round_usage |-> round_usage ]

\* ContextBudgetValid without the ceiling on used_tokens.
ContextBudgetValid_no_ceiling(b) ==
    /\ b.max_tokens >= 1
    /\ b.used_tokens >= 0

\* ContextBudget.__post_init__: the conditions under which construction succeeds.
ContextBudgetValid(b) ==
    /\ b.max_tokens >= 1
    /\ b.used_tokens >= 0
    /\ b.used_tokens <= b.max_tokens

\* track_usage that stores the tokens of the call instead of adding them.
track_usage_overwrite(b, tokens, round_idx) ==
    LET padded == [ i \in 1..Max2(Len(b.round_usage), round_idx + 1) |->
                        IF i <= Len(b.round_usage) THEN b.round_usage[i] ELSE 0 ]
        new_round_usage == [ padded EXCEPT ![round_idx + 1] = tokens ]
    IN ContextBudget(b.max_tokens, SumSeq(new_round_usage), new_round_usage)

\* track_usage: the budget value handed to the constructor (tokens >= 0).
track_usage(b, tokens, round_idx) ==
    LET padded == [ i \in 1..Max2(Len(b.round_usage), round_idx + 1) |->
                        IF i <= Len(b.round_usage) THEN b.round_usage[i] ELSE 0 ]
        new_round_usage == [ padded EXCEPT ![round_idx + 1] = @ + tokens ]
    IN ContextBudget(b.max_tokens, SumSeq(new_round_usage), new_round_usage)

would_exceed_budget(b, additional_tokens) ==
    b.used_tokens + additional_tokens > b.max_tokens

\* Token count of the responses whose round index is at least r.
TokensFrom(responses, indices, r) ==
    SumSeq([ i \in 1..Len(responses) |->
                IF indices[i] >= r THEN count_response_tokens(responses[i]) ELSE 0 ])

\* The loop of truncate_oldest_rounds: drops the oldest included round while the
\* total exceeds the target and more than one round is included.
\* TruncateCutoff that goes on evicting when only the most recent round is left.
RECURSIVE TruncateCutoff_may_drop_last(_, _, _, _)
TruncateCutoff_may_drop_last(responses, indices, target_tokens, included) ==
    LET oldest == CHOOSE r \in included : \A q \in included : r <= q
    IN IF TokensFrom(responses, indices, oldest) > target_tokens
       THEN IF Cardinality(included) > 1
            THEN TruncateCutoff_may_drop_last(responses, indices, target_tokens,
                                              included \ { oldest })
            ELSE oldest + 1
       ELSE oldest

\* TruncateCutoff that also evicts when the total equals the target.
RECURSIVE TruncateCutoff_evicts_at_target(_, _, _, _)
TruncateCutoff_evicts_at_target(responses, indices, target_tokens, included) ==
    LET oldest == CHOOSE r \in included : \A q \in included : r <= q
    IN IF TokensFrom(responses, indices, oldest) >= target_tokens /\ Cardinality(included) > 1
       THEN TruncateCutoff_evicts_at_target(responses, indices, target_tokens,
                                            included \ { oldest })
       ELSE oldest

RECURSIVE TruncateCutoff(_, _, _, _)
TruncateCutoff(responses, indices, target_tokens, included) ==
    LET oldest == CHOOSE r \in included : \A q \in included : r <= q
    IN IF TokensFrom(responses, indices, oldest) > target_tokens /\ Cardinality(included) > 1
       THEN TruncateCutoff(responses, indices, target_tokens, included \ { oldest })
       ELSE oldest

KeepFrom(responses, indices, r) ==
    Flatten([ i \in 1..Len(responses) |->
                IF indices[i] >= r THEN << responses[i] >> ELSE << >> ])

truncate_oldest_rounds(responses, indices, target_tokens) ==
    IF Len(responses) = 0 THEN << >>
    ELSE TheOnly({ KeepFrom(responses, indices, cutoff) :
                     cutoff \in { TruncateCutoff(responses, indices, target_tokens,
                                                  Range(indices)) } })

\* ------------------------------------------------------------------------
\* consensus/errors.py
\* ------------------------------------------------------------------------
\* check_round_responses without its zero-response branch.
check_round_responses_quorum_only(responses, cfg, round_index) ==
    IF Len(responses) < quorum(cfg)
    THEN Some([ kind |-> "QuorumError", received |-> Len(responses),
                required |-> quorum(cfg) ])
    ELSE None

\* check_round_responses: None when it passes, otherwise the exception raised.
check_round_responses(responses, cfg, round_index) ==
    IF Len(responses) = 0
    THEN Some([ kind |-> "ZeroResponseError", round_index |-> round_index ])
    ELSE IF Len(responses) < quorum(cfg)
    THEN Some([ kind |-> "QuorumError", received |-> Len(responses),
                required |-> quorum(cfg) ])
    ELSE None


\* ------------------------------------------------------------------------
\* consensus/digest.py
\* ------------------------------------------------------------------------
Count(items, x) == Cardinality({ i \in 1..Len(items) : items[i] = x })

\* Sort key (-count, item): higher count first, then lexical order.
RankedBefore_alpha_only(items, x, y) == TextLess(x, y)

RankedBefore(items, x, y) ==
    \/ Count(items, x) > Count(items, y)
    \/ Count(items, x) = Count(items, y) /\ TextLess(x, y)

\* sorted(..., key=(-count, item)) over the distinct items in todo: the item at
\* position i is the one with exactly i - 1 items ranked before it.
SortRanked(items, todo) ==
    [ i \in 1..Cardinality(todo) |->
        CHOOSE x \in todo :
            Cardinality({ y \in todo : RankedBefore(items, y, x) }) = i - 1 ]

\* The distinct items in order of first occurrence, unsorted.
_sort_by_first_occurrence(items) ==
    TheOnly({ [ i \in 1..Cardinality(todo) |->
                  CHOOSE x \in todo :
                      Cardinality({ y \in todo :
                          (CHOOSE k \in 1..Len(v) : v[k] = y /\ \A m \in 1..(k - 1) : v[m] # y)
                        < (CHOOSE k \in 1..Len(v) : v[k] = x /\ \A m \in 1..(k - 1) : v[m] # x) })
                      = i - 1 ] :
              v \in { items }, todo \in { Range(items) } })

_sort_by_frequency_and_alpha(items) ==
    TheOnly({ SortRanked(v, todo) : v \in { items }, todo \in { Range(items) } })

RECURSIVE LStrip(_)
LStrip(t) == IF Len(t) > 0 /\ IsSpace(t[1]) THEN LStrip(Tail(t)) ELSE t

RECURSIVE RStrip(_)
RStrip(t) ==
    IF Len(t) > 0 /\ IsSpace(t[Len(t)]) THEN RStrip(SubSeq(t, 1, Len(t) - 1)) ELSE t

strip(t) == RStrip(LStrip(t))

\* The raw pieces between the separators ". ", "! ", "? " and newline.
RECURSIVE RawSentences(_, _)
RawSentences(text, cur) ==
    IF Len(text) = 0 THEN << cur >>
    ELSE IF text[1] = "\n"
    THEN << cur >> \o RawSentences(Tail(text), << >>)
    ELSE IF text[1] \in { ".", "!", "?" } /\ Len(text) >= 2 /\ text[2] = " "
    THEN << cur >> \o RawSentences(Tail(Tail(text)), << >>)
    ELSE RawSentences(Tail(text), Append(cur, text[1]))

_split_into_sentences(text) ==
    LET raw == RawSentences(text, << >>)
    IN SelectSeq([ i \in 1..Len(raw) |-> strip(raw[i]) ], LAMBDA t : Len(t) > 0)

_extract_common_points(responses) ==
    TheOnly({ TheOnly({ SortRanked(all_sentences, common) :
                  common \in { { x \in Range(all_sentences) :
                                   2 * Count(all_sentences, x) >= Len(responses) } } }) :
              all_sentences \in { Flatten([ i \in 1..Len(responses) |->
                                      _split_into_sentences(responses[i].answer) ]) } })

Digest(common_points, objections, missing, suggested_edits) ==
    [ common_points |-> common_points, objections |-> objections,
      missing |-> missing, suggested_edits |-> suggested_edits ]

build_digest(responses) ==
    Digest(_extract_common_points(responses),
           _sort_by_frequency_and_alpha(Flatten([ i \in 1..Len(responses) |-> responses[i].objections ])),
           _sort_by_frequency_and_alpha(Flatten([ i \in 1..Len(responses) |-> responses[i].missing ])),
           _sort_by_frequency_and_alpha(Flatten([ i \in 1..Len(responses) |-> responses[i].edits ])))

update_digest_dropping_common_points(previous_digest, critiques) ==
    Digest(<< >>,
           _sort_by_frequency_and_alpha(previous_digest.objections
               \o Flatten([ i \in 1..Len(critiques) |-> critiques[i].objections ])),
           _sort_by_frequency_and_alpha(previous_digest.missing
               \o Flatten([ i \in 1..Len(critiques) |-> critiques[i].missing ])),
           _sort_by_frequency_and_alpha(previous_digest.suggested_edits
               \o Flatten([ i \in 1..Len(critiques) |-> critiques[i].edits ])))

update_digest_forgetting_previous(previous_digest, critiques) ==
    Digest(previous_digest.common_points,
           _sort_by_frequency_and_alpha(
               Flatten([ i \in 1..Len(critiques) |-> critiques[i].objections ])),
           _sort_by_frequency_and_alpha(
               Flatten([ i \in 1..Len(critiques) |-> critiques[i].missing ])),
           _sort_by_frequency_and_alpha(
               Flatten([ i \in 1..Len(critiques) |-> critiques[i].edits ])))

update_digest_keeping_duplicates(previous_digest, critiques) ==
    Digest(previous_digest.common_points,
           previous_digest.objections
               \o Flatten([ i \in 1..Len(critiques) |-> critiques[i].objections ]),
           previous_digest.missing
               \o Flatten([ i \in 1..Len(critiques) |-> critiques[i].missing ]),
           previous_digest.suggested_edits
               \o Flatten([ i \in 1..Len(critiques) |-> critiques[i].edits ]))

update_digest_from_critiques(previous_digest, critiques) ==
    Digest(previous_digest.common_points,
           _sort_by_frequency_and_alpha(previous_digest.objections
               \o Flatten([ i \in 1..Len(critiques) |-> critiques[i].objections ])),
           _sort_by_frequency_and_alpha(previous_digest.missing
               \o Flatten([ i \in 1..Len(critiques) |-> critiques[i].missing ])),
           _sort_by_frequency_and_alpha(previous_digest.suggested_edits
               \o Flatten([ i \in 1..Len(critiques) |-> critiques[i].edits ])))


\* ------------------------------------------------------------------------
\* consensus/runner.py: pure helpers
\* ------------------------------------------------------------------------
\* _analyze_critiques: << approval_count, critical_objections >>
CountApprovals(critiques) ==
    SumSeq([ i \in 1..Len(critiques) |-> IF critiques[i].approve THEN 1 ELSE 0 ])

CriticalObjections(critiques) ==
    Flatten([ i \in 1..Len(critiques) |->
                IF critiques[i].critical /\ Len(critiques[i].objections) > 0
                THEN critiques[i].objections ELSE << >> ])

\* A tally that takes the objections of every critique.
_analyze_critiques_all_objections(critiques) ==
    << CountApprovals(critiques),
       Flatten([ i \in 1..Len(critiques) |-> critiques[i].objections ]) >>

_analyze_critiques(critiques) ==
    << CountApprovals(critiques), CriticalObjections(critiques) >>

\* A confidence that is HIGH whenever no critical objection was raised.
_calculate_confidence_ignoring_ratio(approval_count, total_participants, critical_count, approval_ratio) ==
    IF total_participants = 0 THEN "LOW"
    ELSE IF critical_count = 0
    THEN "HIGH"
    ELSE IF approval_count * 2 >= total_participants /\ critical_count <= 1
    THEN "MEDIUM"
    ELSE "LOW"

\* actual_ratio >= approval_ratio is approval_count / total >= ratio / 100.
_calculate_confidence(approval_count, total_participants, critical_count, approval_ratio) ==
    IF total_participants = 0 THEN "LOW"
    ELSE IF approval_count * 100 >= approval_ratio * total_participants /\ critical_count = 0
    THEN "HIGH"
    ELSE IF approval_count * 2 >= total_participants /\ critical_count <= 1
    THEN "MEDIUM"
    ELSE "LOW"

\* "\n".join(lines)
JoinLines(lines) ==
    TheOnly({ Flatten([ i \in 1..Len(v) |-> IF i = 1 THEN v[i] ELSE << "\n" >> \o v[i] ]) :
              v \in { lines } })

Prefixed(label, items) == [ i \in 1..Len(items) |-> << label >> \o items[i] ]

\* Summary lines with three objection slots whatever the critical lines take.
summary_lines_uncapped_objections(critiques, critical_objections, approval_count, total_participants, approval_ratio) ==
    LET all_objections == Flatten([ i \in 1..Len(critiques) |->
                              IF ~critiques[i].approve THEN critiques[i].objections
                                                       ELSE << >> ])
        all_missing == Flatten([ i \in 1..Len(critiques) |->
                              IF ~critiques[i].approve THEN critiques[i].missing
                                                       ELSE << >> ])
    IN << << "---" >>, << "Consensus: NOT REACHED" >>, << "Confidence: ", "LOW" >>,
          << >>, << "Unresolved Issues:" >> >>
           \o Prefixed("- Critical: ", Take(critical_objections, 2))
           \o Prefixed("- Objection: ", Take(all_objections, 3))
           \o Prefixed("- Missing: ", Take(all_missing, 2))

\* The lines of the summary; fixed fragments of the f-strings are single symbols.
summary_lines(critiques, critical_objections, approval_count, total_participants, approval_ratio) ==
    LET confidence == _calculate_confidence(approval_count, total_participants,
                                            Len(critical_objections), approval_ratio)
        all_objections == Flatten([ i \in 1..Len(critiques) |->
                              IF ~critiques[i].approve THEN critiques[i].objections
                                                       ELSE << >> ])
        all_missing == Flatten([ i \in 1..Len(critiques) |->
                              IF ~critiques[i].approve THEN critiques[i].missing
                                                       ELSE << >> ])
        header == << << "---" >>,
                     << "Consensus: NOT REACHED (", ToString(approval_count), "/",
                        ToString(total_participants), " approvals, ",
                        ToString(Len(critical_objections)),
                        IF Len(critical_objections) # 1 THEN " critical objections)"
                                                        ELSE " critical objection)" >>,
                     << "Confidence: ", confidence >> >>
        has_issues == Len(critical_objections) > 0 \/ Len(all_objections) > 0
                          \/ Len(all_missing) > 0
        remaining_slots == 3 - Min2(Len(critical_objections), 2)
    IN IF has_issues
       THEN header \o << << >>, << "Unresolved Issues:" >> >>
                \o Prefixed("- Critical: ", Take(critical_objections, 2))
                \o Prefixed("- Objection: ", Take(all_objections, remaining_slots))
                \o Prefixed("- Missing: ", Take(all_missing, 2))
       ELSE header

_build_disagreement_summary(critiques, critical_objections, approval_count, total_participants, approval_ratio) ==
    JoinLines(summary_lines(critiques, critical_objections, approval_count,
                            total_participants, approval_ratio))

\* Truthiness of an optional string: neither None nor empty.
Truthy(opt_text) == ~IsNone(opt_text) /\ Len(Get(opt_text)) > 0

\* final_output that appends the summary whatever the caller asked for.
final_output_ignoring_flag(state, no_consensus_summary) ==
    IF Truthy(state.disagreement_summary)
    THEN state.candidate_answer \o << "\n", "\n" >> \o Get(state.disagreement_summary)
    ELSE state.candidate_answer

\* run_consensus, lines 326-329: the final output text.
final_output(state, no_consensus_summary) ==
    IF ~no_consensus_summary /\ Truthy(state.disagreement_summary)
    THEN state.candidate_answer \o << "\n", "\n" >> \o Get(state.disagreement_summary)
    ELSE state.candidate_answer

\* consensus_determination that looks at the approvals only.
consensus_determination_approvals_only(state, cfg) ==
    state.approval_count >= quorum(cfg)

\* run_consensus, lines 321-324.
consensus_determination(state, cfg) ==
    state.approval_count >= quorum(cfg) /\ Len(state.critical_objections) = 0

\* run_consensus, line 345: tuple(sorted(set(all_failed_models)))
SortSet(S) ==
    [ i \in 1..Cardinality(S) |->
        CHOOSE x \in S : Cardinality({ y \in S : y < x }) = i - 1 ]

failed_models_metadata(failed) == TheOnly({ SortSet(names) : names \in { Range(failed) } })


\* ------------------------------------------------------------------------
\* Inputs of a run
\* ------------------------------------------------------------------------
ModelTuples == { << 2, 1 >>, << 3, 1, 2 >> }
ApprovalRatios == { 0, 50, 100 }
ChangeThresholds == { 0, 50 }
ContextLimits == { None, Some(2) }

\* Runs with three participants are explored for at most two rounds; the change
\* threshold is varied in the runs of four rounds and more, the only ones where a
\* previous candidate is ever compared, and those are explored for one quorum.
RunConfigs ==
    { cfg \in [ models : ModelTuples, max_rounds : 1..MaxRounds,
                approval_ratio : ApprovalRatios, change_threshold : ChangeThresholds,
                max_context_tokens : ContextLimits, no_consensus_summary : BOOLEAN ] :
        /\ ValidRunConfig(cfg)
        /\ (Len(cfg.models) > 2 => cfg.max_rounds <= 2)
        /\ (cfg.max_rounds < 4 => cfg.change_threshold = 50)
        /\ (cfg.max_rounds >= 4 => /\ cfg.approval_ratio = 100
                                   /\ IsNone(cfg.max_context_tokens)
                                   /\ ~cfg.no_consensus_summary) }

\* What a provider call can do: return, or raise a provider-kind or a parse-kind error.
FailureKinds == { "ProviderError", "ParseError" }

\* Answers a participant can give in round 1.
Answers == { << "a" >>, << "a", ".", " ", "b" >> }

\* Critiques a participant can return in rounds 2+:
\* approve/critical flags with objections, missing items and edits.
CritiqueBodies ==
    { [ answer |-> << >>, approve |-> TRUE,  critical |-> FALSE, objections |-> << >>,
        missing |-> << >>, edits |-> << >> ],
      [ answer |-> << "a" >>, approve |-> FALSE, critical |-> FALSE, objections |-> << >>,
        missing |-> << >>, edits |-> << >> ],
      [ answer |-> << >>, approve |-> FALSE, critical |-> TRUE,
        objections |-> << << "b" >>, << "a" >> >>, missing |-> << << "c" >> >>,
        edits |-> << << "a" >> >> ] }

\* Candidate answers the mediator can return.
Candidates == { << "a", " ", "b" >>, << "a", " ", "c" >> }

\* An entry of the call log: who was called, in which round, and how the call ended
\* ("ok" or the kind of the error raised).
ParticipantCall(name, round, outcome) ==
    [ role |-> "participant", model |-> name, round |-> round, outcome |-> outcome ]
MediatorCall(round, outcome) ==
    [ role |-> "mediator", model |-> 0, round |-> round, outcome |-> outcome ]

\* ConsensusResult reporting the zero-based index of the last round.
ConsensusResult_zero_based_rounds(state, cfg, rounds, responses, dig, failed) ==
    [ output |-> final_output(state, cfg.no_consensus_summary),
      exit_code |-> 0,
      consensus_reached |-> consensus_determination(state, cfg),
      rounds_completed |-> rounds - 1,
      mediator_state |-> state,
      responses |-> responses,
      digest |-> dig,
      metadata |-> [ participants |-> Len(cfg.models), quorum |-> quorum(cfg),
                     failed_models |-> failed_models_metadata(failed) ] ]

ConsensusResult(state, cfg, rounds, responses, dig, failed) ==
    [ output |-> final_output(state, cfg.no_consensus_summary),
      exit_code |-> 0,
      consensus_reached |-> consensus_determination(state, cfg),
      rounds_completed |-> rounds,
      mediator_state |-> state,
      responses |-> responses,
      digest |-> dig,
      metadata |-> [ participants |-> Len(cfg.models), quorum |-> quorum(cfg),
                     failed_models |-> failed_models_metadata(failed) ] ]

Init ==
    /\ config \in RunConfigs
    /\ pc = "round1"
    /\ idx = 0
    /\ round_responses = << >>
    /\ round_failed = << >>
    /\ all_responses = << >>
    /\ round_indices = << >>
    /\ all_failed_models = << >>
    /\ current_round = 1
    /\ previous_candidate = None
    /\ mediator_state = None
    /\ digest = Digest(<< >>, << >>, << >>, << >>)
    /\ budget = IF IsNone(config.max_context_tokens) THEN None
                ELSE Some(ContextBudget(Get(config.max_context_tokens), 0, << >>))
    /\ responses_for_mediator = << >>
    /\ stop_reason = ""
    /\ result = None
    /\ error = None
    /\ calls = << >>
    /\ probe = None


\* ------------------------------------------------------------------------
\* run_consensus as a state machine; one action per provider call, each
\* including the code that runs up to the next provider call.
\* ------------------------------------------------------------------------
Raise(e) ==
    /\ pc' = "raised"
    /\ error' = Some(e)
    /\ result' = None

\* Lines 320-347: consensus determination, output and the returned value.
Return(state, rounds, responses, dig, failed) ==
    /\ pc' = "returned"
    /\ \E value \in { ConsensusResult(state, config, rounds, responses, dig, failed) } :
           result' = Some(value)
    /\ error' = None

\* mediator_failure that re-raises every failure as a provider error.
mediator_failure_as_provider_error(kind) == Raise([ kind |-> "ProviderError" ])

\* Lines 476-479 and 623-626: a failed mediator call is logged and re-raised.
mediator_failure(kind) == Raise([ kind |-> kind ])

\* loop_condition that lets one more round start.
loop_condition_inclusive(round, cfg) == round <= cfg.max_rounds

\* Line 205: the condition of the while loop.
loop_condition(round, cfg) == round < cfg.max_rounds

\* final_mediator_state that attaches the summary whatever the stop reason.
final_mediator_state_always_summary(candidate, approval_count, critical_objections, reason, critiques, cfg) ==
    MediatorState(candidate, approval_count, critical_objections,
        Some(_build_disagreement_summary(critiques, critical_objections,
                 approval_count, Len(cfg.models), cfg.approval_ratio)))

\* final_mediator_state that keeps no tally of the stopping round.
final_mediator_state_without_tally(candidate, approval_count, critical_objections, reason, critiques, cfg) ==
    MediatorState(candidate, 0, << >>,
        IF reason # "consensus_reached"
        THEN Some(_build_disagreement_summary(critiques, critical_objections,
                      approval_count, Len(cfg.models), cfg.approval_ratio))
        ELSE None)

\* final_mediator_state that never attaches a summary.
final_mediator_state_without_summary(candidate, approval_count, critical_objections, reason, critiques, cfg) ==
    MediatorState(candidate, approval_count, critical_objections, None)

\* Lines 281-293: the mediator state built when the loop stops.
final_mediator_state(candidate, approval_count, critical_objections, reason, critiques, cfg) ==
    MediatorState(candidate, approval_count, critical_objections,
        IF reason # "consensus_reached"
        THEN Some(_build_disagreement_summary(critiques, critical_objections,
                      approval_count, Len(cfg.models), cfg.approval_ratio))
        ELSE None)

\* Lines 205-230: the loop test, and the start of a critique round.
\* When the test fails the function returns.
LoopTest(state, round, responses, indices, dig, failed) ==
    IF loop_condition(round, config)
    THEN /\ current_round' = round + 1
         /\ \E kept \in {
                  IF ~IsNone(budget)
                     /\ would_exceed_budget(Get(budget), sum_response_tokens(responses))
                  THEN truncate_oldest_rounds(responses, indices,
                           Get(budget).max_tokens - Get(budget).used_tokens)
                  ELSE responses } :
                responses_for_mediator' = kept
         /\ pc' = "critique"
         /\ idx' = 0
         /\ round_responses' = << >>
         /\ round_failed' = << >>
         /\ UNCHANGED << result, error >>
    ELSE /\ current_round' = round
         /\ Return(state, round, responses, dig, failed)
         /\ UNCHANGED << responses_for_mediator, idx, round_responses, round_failed >>

\* Lines 176-191: quorum gate, budget tracking and digest of round 1.
\* (Intermediate values are bound over singleton sets: each is computed once.)
Round1Done(responses) ==
    \E gate \in { check_round_responses(responses, config, 1) } :
    \E tracked \in { IF IsNone(budget) THEN None
                     ELSE Some(track_usage(Get(budget), sum_response_tokens(responses), 0)) } :
       IF ~IsNone(gate)
       THEN Raise(Get(gate)) /\ UNCHANGED << budget, digest >>
       ELSE IF ~IsNone(tracked) /\ ~ContextBudgetValid(Get(tracked))
       THEN Raise([ kind |-> "ValueError" ]) /\ UNCHANGED << budget, digest >>
       ELSE /\ budget' = tracked
            /\ digest' = build_digest(responses)
            /\ pc' = "synth"
            /\ UNCHANGED << result, error >>

\* _collect_round1_responses (lines 350-408): one pass of its loop, followed
\* after the last model by lines 176-191.
Round1Call ==
    /\ pc = "round1"
    /\ idx < Len(config.models)
    /\ \E model \in { sorted_models(config.models)[idx + 1] } :
          /\ idx' = idx + 1
          /\ \/ \E answer \in Answers :
                  \E responses \in { Append(round_responses,
                          Response(model, answer, FALSE, FALSE, << >>, << >>, << >>)) } :
                     /\ calls' = Append(calls, ParticipantCall(model, 1, "ok"))
                     /\ round_responses' = responses
                     /\ round_failed' = round_failed
                     /\ IF idx + 1 = Len(config.models)
                        THEN Round1Done(responses)
                        ELSE UNCHANGED << pc, error, result, budget, digest >>
             \/ \E kind \in FailureKinds :
                  /\ calls' = Append(calls, ParticipantCall(model, 1, kind))
                  /\ round_responses' = round_responses
                  /\ round_failed' = Append(round_failed, model)
                  /\ IF idx + 1 = Len(config.models)
                     THEN Round1Done(round_responses)
                     ELSE UNCHANGED << pc, error, result, budget, digest >>
    /\ UNCHANGED << config, all_responses, round_indices, all_failed_models,
                    current_round, previous_candidate, mediator_state,
                    responses_for_mediator, stop_reason, probe >>

\* _synthesize_candidate (lines 411-479), then lines 198-202 and the loop test.
Synthesize ==
    /\ pc = "synth"
    /\ \/ \E candidate \in Candidates :
            \E state \in { MediatorState(candidate, 0, << >>, None) } :
            \E indices \in { [ i \in 1..Len(round_responses) |-> 0 ] } :
               /\ calls' = Append(calls, MediatorCall(1, "ok"))
               /\ mediator_state' = Some(state)
               /\ all_responses' = round_responses
               /\ all_failed_models' = round_failed
               /\ round_indices' = indices
               /\ previous_candidate' = None
               /\ LoopTest(state, 1, round_responses, indices, digest, round_failed)
       \/ \E kind \in FailureKinds :
            /\ calls' = Append(calls, MediatorCall(1, kind))
            /\ mediator_failure(kind)
            /\ UNCHANGED << mediator_state, all_responses, all_failed_models,
                            round_indices, previous_candidate, current_round,
                            responses_for_mediator, idx, round_responses, round_failed >>
    /\ UNCHANGED << config, digest, budget, stop_reason, probe >>


\* Lines 243-294: quorum gate, failed-model and budget tracking, tally, digest
\* merge and stop check of a critique round; on stop, the final state and return.
CritiqueRoundDone(critiques, failed) ==
    \E gate \in { check_round_responses(critiques, config, current_round) } :
    \E tracked \in { IF IsNone(budget) THEN None
                     ELSE Some(track_usage(Get(budget), sum_response_tokens(critiques),
                                           current_round - 1)) } :
    \E tally \in { _analyze_critiques(critiques) } :
    \E candidate \in { Get(mediator_state).candidate_answer } :
    \E new_digest \in { update_digest_from_critiques(digest, critiques) } :
    \E stop \in { should_stop(current_round, tally[1], tally[2], previous_candidate,
                               candidate, critiques, config) } :
    \E final_state \in { final_mediator_state(candidate, tally[1], tally[2], stop[2],
                                               critiques, config) } :
       IF ~IsNone(gate)
       THEN /\ Raise(Get(gate))
            /\ UNCHANGED << all_failed_models, budget, digest, mediator_state, stop_reason >>
       ELSE IF ~IsNone(tracked) /\ ~ContextBudgetValid(Get(tracked))
       THEN /\ Raise([ kind |-> "ValueError" ])
            /\ all_failed_models' = all_failed_models \o failed
            /\ UNCHANGED << budget, digest, mediator_state, stop_reason >>
       ELSE /\ all_failed_models' = all_failed_models \o failed
            /\ budget' = tracked
            /\ digest' = new_digest
            /\ IF stop[1]
               THEN /\ mediator_state' = Some(final_state)
                    /\ stop_reason' = stop[2]
                    /\ Return(final_state, current_round, all_responses, new_digest,
                              all_failed_models \o failed)
               ELSE /\ pc' = "update"
                    /\ UNCHANGED << mediator_state, stop_reason, result, error >>

\* _collect_critique_responses (lines 482-555): one pass of its loop, followed
\* after the last model by lines 243-294.
CritiqueCall ==
    /\ pc = "critique"
    /\ idx < Len(config.models)
    /\ \E model \in { sorted_models(config.models)[idx + 1] } :
          /\ idx' = idx + 1
          /\ \/ \E body \in CritiqueBodies :
                  \E critiques \in { Append(round_responses,
                          Response(model, body.answer, body.approve, body.critical,
                                   body.objections, body.missing, body.edits)) } :
                     /\ calls' = Append(calls, ParticipantCall(model, current_round, "ok"))
                     /\ round_responses' = critiques
                     /\ round_failed' = round_failed
                     /\ IF idx + 1 = Len(config.models)
                        THEN CritiqueRoundDone(critiques, round_failed)
                        ELSE UNCHANGED << pc, error, result, budget, digest,
                                          all_failed_models, mediator_state, stop_reason >>
             \/ \E kind \in FailureKinds :
                  /\ calls' = Append(calls, ParticipantCall(model, current_round, kind))
                  /\ round_responses' = round_responses
                  /\ round_failed' = Append(round_failed, model)
                  /\ IF idx + 1 = Len(config.models)
                     THEN \E failed \in { Append(round_failed, model) } :
                              CritiqueRoundDone(round_responses, failed)
                     ELSE UNCHANGED << pc, error, result, budget, digest,
                                       all_failed_models, mediator_state, stop_reason >>
    /\ UNCHANGED << config, all_responses, round_indices, current_round,
                    previous_candidate, responses_for_mediator, probe >>

\* _update_candidate (lines 558-626), then lines 297-318 and the loop test.
UpdateCandidate ==
    /\ pc = "update"
    /\ \/ \E candidate \in Candidates :
            \E tally \in { _analyze_critiques(round_responses) } :
            \E state \in { MediatorState(candidate, tally[1], tally[2], None) } :
            \E responses \in { all_responses \o round_responses } :
            \E indices \in { round_indices
                    \o [ i \in 1..Len(round_responses) |-> current_round - 1 ] } :
               /\ calls' = Append(calls, MediatorCall(current_round, "ok"))
               /\ previous_candidate' = Some(Get(mediator_state).candidate_answer)
               /\ mediator_state' = Some(state)
               /\ all_responses' = responses
               /\ round_indices' = indices
               /\ LoopTest(state, current_round, responses, indices, digest,
                           all_failed_models)
       \/ \E kind \in FailureKinds :
            /\ calls' = Append(calls, MediatorCall(current_round, kind))
            /\ mediator_failure(kind)
            /\ UNCHANGED << mediator_state, all_responses, round_indices,
                            previous_candidate, current_round, responses_for_mediator,
                            idx, round_responses, round_failed >>
    /\ UNCHANGED << config, digest, budget, all_failed_models, stop_reason, probe >>

Next ==
    \/ Round1Call
    \/ Synthesize
    \/ CritiqueCall
    \/ UpdateCandidate

Spec == Init /\ [][Next]_vars


\* Under weak fairness of Next a run never stops between two steps: every
\* provider call returns or raises, and the code in between is straight-line.
FairSpec == Init /\ [][Next]_vars /\ WF_vars(Next)

\* ------------------------------------------------------------------------
\* run_consensus with a context budget wide enough for a second critique
\* round: the runs in which lines 210-222 evict a round.
\* ------------------------------------------------------------------------
BudgetedRunConfigs ==
    { cfg \in [ models : { << 2, 1 >> }, max_rounds : { 3 }, approval_ratio : { 50, 100 },
                change_threshold : { 50 }, max_context_tokens : { Some(6), Some(8) },
                no_consensus_summary : { FALSE } ] : ValidRunConfig(cfg) }

InitBudgetedRun ==
    /\ config \in BudgetedRunConfigs
    /\ pc = "round1"
    /\ idx = 0
    /\ round_responses = << >>
    /\ round_failed = << >>
    /\ all_responses = << >>
    /\ round_indices = << >>
    /\ all_failed_models = << >>
    /\ current_round = 1
    /\ previous_candidate = None
    /\ mediator_state = None
    /\ digest = Digest(<< >>, << >>, << >>, << >>)
    /\ budget = Some(ContextBudget(Get(config.max_context_tokens), 0, << >>))
    /\ responses_for_mediator = << >>
    /\ stop_reason = ""
    /\ result = None
    /\ error = None
    /\ calls = << >>
    /\ probe = None

SpecBudgetedRun == InitBudgetedRun /\ [][Next]_vars



\* ------------------------------------------------------------------------
\* should_stop on its own: the arguments are drawn in the initial state and
\* one step applies the function.
\* ------------------------------------------------------------------------
\* The variables of a run that a call of a single function leaves idle.
IdleRun ==
    /\ idx = 0
    /\ round_responses = << >>
    /\ round_failed = << >>
    /\ all_responses = << >>
    /\ round_indices = << >>
    /\ all_failed_models = << >>
    /\ current_round = 1
    /\ previous_candidate = None
    /\ mediator_state = None
    /\ digest = Digest(<< >>, << >>, << >>, << >>)
    /\ budget = None
    /\ responses_for_mediator = << >>
    /\ stop_reason = ""
    /\ result = None
    /\ error = None
    /\ calls = << >>

StopConfigs ==
    { cfg \in [ models : { << 2, 1 >> }, max_rounds : 1..MaxRounds,
                approval_ratio : ApprovalRatios, change_threshold : { 0, 50, 100 },
                max_context_tokens : { None }, no_consensus_summary : { FALSE } ] :
        ValidRunConfig(cfg) }

StopCritiques ==
    { << >> } \cup
    { << Response(1, body.answer, body.approve, body.critical, body.objections,
                  body.missing, body.edits) >> : body \in CritiqueBodies }

StopTexts == Candidates \cup { << >> }

StopArguments ==
    [ current_round : 1..MaxRounds,
      approval_count : 0..2,
      critical_objections : { << >>, << << "b" >> >> },
      previous_candidate : { None } \cup { Some(t) : t \in StopTexts },
      new_candidate : StopTexts,
      critiques : StopCritiques,
      returned : { None } ]

InitStop ==
    /\ config \in StopConfigs
    /\ probe \in { Some(a) : a \in StopArguments }
    /\ pc = "should_stop"
    /\ IdleRun

ShouldStopCall ==
    /\ pc = "should_stop"
    /\ \E a \in { Get(probe) } :
       \E value \in { should_stop(a.current_round, a.approval_count, a.critical_objections,
                                   a.previous_candidate, a.new_candidate, a.critiques,
                                   config) } :
           probe' = Some([ a EXCEPT !.returned = Some(value) ])
    /\ pc' = "should_stop_returned"
    /\ UNCHANGED << config, idx, round_responses, round_failed, all_responses,
                    round_indices, all_failed_models, current_round, previous_candidate,
                    mediator_state, digest, budget, responses_for_mediator, stop_reason,
                    result, error, calls >>

NextStop == ShouldStopCall

SpecStop == InitStop /\ [][NextStop]_vars


\* ------------------------------------------------------------------------
\* consensus/collection.py: collect_responses_with_failures as a state machine,
\* one step per pass of its loop. prompt_fn returns a response or raises; the
\* except clause (line 52) catches ProviderError only, so a ParseError raised
\* by prompt_fn leaves the function.
\* ------------------------------------------------------------------------
\* The models argument: any tuple of names, in any order.
CollectModelTuples == UNION { [ 1..n -> 1..MaxModels ] : n \in 0..MaxModels }

CollectConfig ==
    [ models |-> << 1, 2 >>, max_rounds |-> 1, approval_ratio |-> 0, change_threshold |-> 0,
      max_context_tokens |-> None, no_consensus_summary |-> FALSE ]

InitCollect ==
    /\ config = CollectConfig
    /\ probe \in { Some([ models |-> ms ]) : ms \in CollectModelTuples }
    /\ pc = "collect"
    /\ IdleRun

\* Lines 48-59: one pass of the loop.
CollectCall ==
    /\ pc = "collect"
    /\ idx < Len(Get(probe).models)
    /\ \E model \in { sorted_models(Get(probe).models)[idx + 1] } :
          /\ idx' = idx + 1
          /\ \/ \E answer \in Answers :
                  /\ calls' = Append(calls, ParticipantCall(model, 1, "ok"))
                  /\ round_responses' = Append(round_responses,
                         Response(model, answer, FALSE, FALSE, << >>, << >>, << >>))
                  /\ UNCHANGED << round_failed, pc, error >>
             \/ /\ calls' = Append(calls, ParticipantCall(model, 1, "ProviderError"))
                /\ round_failed' = Append(round_failed, model)
                /\ UNCHANGED << round_responses, pc, error >>
             \/ /\ calls' = Append(calls, ParticipantCall(model, 1, "ParseError"))
                /\ pc' = "raised"
                /\ error' = Some([ kind |-> "ParseError" ])
                /\ UNCHANGED << round_responses, round_failed >>
    /\ UNCHANGED << config, probe, all_responses, round_indices, all_failed_models,
                    current_round, previous_candidate, mediator_state, digest, budget,
                    responses_for_mediator, stop_reason, result >>

\* Line 61: the return after the loop.
CollectReturn ==
    /\ pc = "collect"
    /\ idx = Len(Get(probe).models)
    /\ pc' = "returned"
    /\ result' = Some([ successful_responses |-> round_responses,
                        failed_models |-> round_failed ])
    /\ UNCHANGED << config, probe, idx, round_responses, round_failed, all_responses,
                    round_indices, all_failed_models, current_round, previous_candidate,
                    mediator_state, digest, budget, responses_for_mediator, stop_reason,
                    error, calls >>

NextCollect ==
    \/ CollectCall
    \/ CollectReturn

SpecCollect == InitCollect /\ [][NextCollect]_vars


\* ------------------------------------------------------------------------
\* retry/classifier.py and retry/executor.py: execute_with_retry as a state
\* machine, one step per call of fn and one per backoff sleep. fn returns a
\* value, raises a ProviderError with some code (or none), or raises another
\* exception (ParseError), which the except clause (line 82) does not catch.
\* The loop cannot run out: its last pass returns or raises (lines 81, 95, 109).
\* ------------------------------------------------------------------------
RETRYABLE_CODES == { "timeout", "network", "rate_limit", "service_unavailable" }
NON_RETRYABLE_CODES == { "auth", "config", "api_error" }

\* The codes a ProviderError can carry: the listed ones, one that is in neither
\* list, and None for "no code".
ErrorCodes ==
    { None } \cup { Some(c) : c \in RETRYABLE_CODES \cup NON_RETRYABLE_CODES \cup { "unknown" } }

\* is_retryable that retries every error not known to be permanent.
is_retryable_unless_permanent(err) ==
    IsNone(err.code) \/ Get(err.code) \notin NON_RETRYABLE_CODES

is_retryable(err) ==
    IF IsNone(err.code) THEN FALSE ELSE Get(err.code) \in RETRYABLE_CODES

ProviderError(code) == [ kind |-> "ProviderError", code |-> code ]
ParseError == [ kind |-> "ParseError", code |-> None ]

\* What one call of fn does: the value it returns or the exception it raises.
FnReturns == { [ returned |-> Some(v), raised |-> None ] : v \in { "r1", "r2" } }
FnRaises ==
    { [ returned |-> None, raised |-> Some(e) ] :
          e \in { ProviderError(c) : c \in ErrorCodes } \cup { ParseError } }

\* RetryConfig.__post_init__: max_retries >= 0.
RetryConfigs == { [ max_retries |-> n ] : n \in 0..MaxRetries }

total_attempts(retry_config) == retry_config.max_retries + 1

retries_exhausted_after_sleep(attempt, retry_config) == attempt > retry_config.max_retries

\* Line 98: no retry remains after this attempt.
retries_exhausted(attempt, retry_config) == attempt >= retry_config.max_retries

\* An executor whose handler takes every exception and re-raises only the
\* ProviderErrors that are not retryable.
raised_without_retry_provider_only(err) == err.kind = "ProviderError" /\ ~is_retryable(err)

\* Lines 82-95: an exception that is not a ProviderError passes the except
\* clause; a ProviderError that is not retryable is re-raised by it.
raised_without_retry(err) == err.kind # "ProviderError" \/ ~is_retryable(err)

InitRetry ==
    /\ config = CollectConfig
    /\ probe \in { Some(rc) : rc \in RetryConfigs }
    /\ pc = "attempt"
    /\ IdleRun

\* Lines 69-109: one pass of the loop up to the return, the raise or the sleep;
\* idx is the loop variable attempt.
RetryAttempt ==
    /\ pc = "attempt"
    /\ idx < total_attempts(Get(probe))
    /\ \/ \E outcome \in FnReturns :
            /\ calls' = Append(calls, outcome)
            /\ result' = outcome.returned
            /\ pc' = "returned"
            /\ UNCHANGED << error, idx >>
       \/ \E outcome \in FnRaises :
            /\ calls' = Append(calls, outcome)
            /\ IF raised_without_retry(Get(outcome.raised))
               THEN /\ error' = outcome.raised
                    /\ pc' = "raised"
               ELSE IF retries_exhausted(idx, Get(probe))
               THEN /\ error' = outcome.raised
                    /\ pc' = "raised"
               ELSE /\ error' = error
                    /\ pc' = "sleep"
            /\ UNCHANGED << result, idx >>
    /\ UNCHANGED << config, probe, round_responses, round_failed, all_responses,
                    round_indices, all_failed_models, current_round, previous_candidate,
                    mediator_state, digest, budget, responses_for_mediator, stop_reason >>

\* Lines 111-131 and the loop header: the backoff sleep, then the next pass.
RetrySleep ==
    /\ pc = "sleep"
    /\ idx' = idx + 1
    /\ pc' = "attempt"
    /\ UNCHANGED << config, probe, round_responses, round_failed, all_responses,
                    round_indices, all_failed_models, current_round, previous_candidate,
                    mediator_state, digest, budget, responses_for_mediator, stop_reason,
                    result, error, calls >>

NextRetry ==
    \/ RetryAttempt
    \/ RetrySleep

SpecRetry == InitRetry /\ [][NextRetry]_vars


\* ------------------------------------------------------------------------
\* context/budget.py on its own: a ContextBudget is constructed from drawn
\* arguments, then track_usage is called on it again and again, the caller
\* keeping the value returned. A call that raises leaves the caller with the
\* budget it had.
\* ------------------------------------------------------------------------
BudgetArguments ==
    [ max_tokens : (0 - 1)..MaxTokens, used_tokens : (0 - 1)..(MaxTokens + 1),
      round_usage : { << >> } ]

\* track_usage, lines 51-52: negative tokens are rejected.
track_usage_rejects(tokens) == tokens < 0

TrackedTokens == (0 - 1)..2
TrackedRounds == 0..2

\* An entry of the log of track_usage calls.
TrackCall(tokens, round_idx, outcome) ==
    [ tokens |-> tokens, round_idx |-> round_idx, outcome |-> outcome ]

InitBudget ==
    /\ config = CollectConfig
    /\ probe \in { Some(a) : a \in BudgetArguments }
    /\ pc = "new_budget"
    /\ IdleRun

\* ContextBudget(...): __post_init__ (lines 23-31) raises or the value exists.
NewBudget ==
    /\ pc = "new_budget"
    /\ \E b \in { ContextBudget(Get(probe).max_tokens, Get(probe).used_tokens,
                                 Get(probe).round_usage) } :
          IF ContextBudgetValid(b)
          THEN budget' = Some(b) /\ pc' = "budget" /\ error' = None
          ELSE budget' = None /\ pc' = "raised" /\ error' = Some([ kind |-> "ValueError" ])
    /\ UNCHANGED << config, probe, idx, round_responses, round_failed, all_responses,
                    round_indices, all_failed_models, current_round, previous_candidate,
                    mediator_state, digest, responses_for_mediator, stop_reason,
                    result, calls >>

\* track_usage (lines 34-66) on the current budget.
TrackUsage ==
    /\ pc = "budget"
    /\ Len(calls) < MaxTracked
    /\ \E tokens \in TrackedTokens, round_idx \in TrackedRounds :
          IF track_usage_rejects(tokens)
          THEN /\ calls' = Append(calls, TrackCall(tokens, round_idx, "ValueError"))
               /\ error' = Some([ kind |-> "ValueError" ])
               /\ budget' = budget
          ELSE \E b \in { track_usage(Get(budget), tokens, round_idx) } :
                 IF ContextBudgetValid(b)
                 THEN /\ calls' = Append(calls, TrackCall(tokens, round_idx, "ok"))
                      /\ error' = None
                      /\ budget' = Some(b)
                 ELSE /\ calls' = Append(calls, TrackCall(tokens, round_idx, "ValueError"))
                      /\ error' = Some([ kind |-> "ValueError" ])
                      /\ budget' = budget
    /\ UNCHANGED << config, probe, pc, idx, round_responses, round_failed, all_responses,
                    round_indices, all_failed_models, current_round, previous_candidate,
                    mediator_state, digest, responses_for_mediator, stop_reason, result >>

NextBudget ==
    \/ NewBudget
    \/ TrackUsage

SpecBudget == InitBudget /\ [][NextBudget]_vars


\* ------------------------------------------------------------------------
\* context/truncation.py on its own: truncate_oldest_rounds applied to drawn
\* arguments. Responses carry their input position as name; their answers
\* count 0, 1 and 2 tokens.
\* ------------------------------------------------------------------------
TruncationAnswers == { << >>, << "a" >>, << "a", ".", " ", "b", "c" >> }
TruncationResponses ==
    UNION { { [ i \in 1..n |-> Response(i, answers[i], FALSE, FALSE, << >>, << >>, << >>) ] :
                answers \in [ 1..n -> TruncationAnswers ] } : n \in 0..MaxResponses }
TruncationIndices == UNION { [ 1..n -> 0..2 ] : n \in 0..MaxResponses }
TruncationTargets == (0 - 1)..4

InitTruncate ==
    /\ config = CollectConfig
    /\ probe \in { Some([ responses |-> rs, round_indices |-> ix, target_tokens |-> t ]) :
                      rs \in TruncationResponses, ix \in TruncationIndices,
                      t \in TruncationTargets }
    /\ pc = "truncate"
    /\ IdleRun

\* truncate_oldest_rounds, lines 31-80.
TruncateCall ==
    /\ pc = "truncate"
    /\ \E a \in { Get(probe) } :
          IF Len(a.responses) # Len(a.round_indices)
          THEN /\ pc' = "raised"
               /\ error' = Some([ kind |-> "ValueError" ])
               /\ result' = None
          ELSE \E kept \in { truncate_oldest_rounds(a.responses, a.round_indices,
                                                     a.target_tokens) } :
                 /\ pc' = "returned"
                 /\ result' = Some(kept)
                 /\ error' = None
    /\ UNCHANGED << config, probe, idx, round_responses, round_failed, all_responses,
                    round_indices, all_failed_models, current_round, previous_candidate,
                    mediator_state, digest, budget, responses_for_mediator, stop_reason,
                    calls >>

NextTruncate == TruncateCall

SpecTruncate == InitTruncate /\ [][NextTruncate]_vars


\* ------------------------------------------------------------------------
\* build_digest and update_digest_from_critiques on their own: a digest is
\* built from drawn responses, or handed in by the caller, and then updated
\* with drawn critique lists.
\* ------------------------------------------------------------------------
DigestAnswers == { << >>, << "b" >>, << "b", ".", " ", "a" >> }

\* (objections, missing, edits) of a drawn response.
DigestItems ==
    { << << >>, << >>, << >> >>,
      << << << "b" >> >>, << << "a" >> >>, << >> >>,
      << << << "b" >>, << "a" >> >>, << >>, << << "b" >>, << "b" >> >> >>,
      << << << "a" >> >>, << << "b" >>, << "a" >> >>, << << "a" >>, << "b" >> >> >> }

DigestResponse(answer, items) == Response(1, answer, FALSE, FALSE, items[1], items[2], items[3])

DigestResponses == { DigestResponse(a, it) : a \in DigestAnswers, it \in DigestItems }

DigestResponseLists ==
    UNION { [ 1..n -> DigestResponses ] : n \in 0..MaxDigestResponses }

DigestCritiques ==
    LET c1 == DigestResponse(<< >>, << << << "a" >> >>, << >>, << << "b" >> >> >>)
        c2 == DigestResponse(<< >>, << << << "b" >>, << "a" >> >>, << << "a" >> >>, << >> >>)
    IN { << >>, << c1 >>, << c2 >>, << c2, c1 >> }

\* Digests a caller can construct by hand (types.py 113-120 checks nothing).
PreviousDigests ==
    { Digest(cp, ob, mi, ed) :
        cp \in { << >>, << << "a" >> >> },
        ob \in { << >>, << << "a" >>, << "b" >> >>, << << "b" >>, << "a" >> >>,
                 << << "a" >>, << "a" >> >> },
        mi \in { << >>, << << "b" >>, << "a" >> >> },
        ed \in { << >>, << << "a" >> >> } }

IdleDigest ==
    /\ config = CollectConfig
    /\ idx = 0
    /\ round_responses = << >>
    /\ round_failed = << >>
    /\ all_responses = << >>
    /\ round_indices = << >>
    /\ all_failed_models = << >>
    /\ current_round = 1
    /\ previous_candidate = None
    /\ mediator_state = None
    /\ budget = None
    /\ responses_for_mediator = << >>
    /\ stop_reason = ""
    /\ result = None
    /\ error = None
    /\ calls = << >>

InitDigest ==
    /\ \/ /\ pc = "build_digest"
          /\ probe \in { Some(rs) : rs \in DigestResponseLists }
          /\ digest = Digest(<< >>, << >>, << >>, << >>)
       \/ /\ pc = "update_digest"
          /\ probe = None
          /\ digest \in PreviousDigests
    /\ IdleDigest

\* build_digest, lines 31-64.
BuildDigestCall ==
    /\ pc = "build_digest"
    /\ \E built \in { build_digest(Get(probe)) } :
          /\ digest' = built
          /\ pc' = "built"
    /\ UNCHANGED << config, probe, idx, round_responses, round_failed, all_responses,
                    round_indices, all_failed_models, current_round, previous_candidate,
                    mediator_state, budget, responses_for_mediator, stop_reason,
                    result, error, calls >>

\* An entry of the call log of update_digest_from_critiques.
UpdateDigestEntry(previous_digest, critiques, returned) ==
    [ previous_digest |-> previous_digest, critiques |-> critiques, returned |-> returned ]

\* update_digest_from_critiques, lines 168-189.
UpdateDigestCall ==
    /\ pc \in { "built", "update_digest", "updated" }
    /\ Len(calls) < MaxUpdates
    /\ \E critiques \in DigestCritiques :
       \E updated \in { update_digest_from_critiques(digest, critiques) } :
          /\ digest' = updated
          /\ calls' = Append(calls, UpdateDigestEntry(digest, critiques, updated))
          /\ pc' = "updated"
    /\ UNCHANGED << config, probe, idx, round_responses, round_failed, all_responses,
                    round_indices, all_failed_models, current_round, previous_candidate,
                    mediator_state, budget, responses_for_mediator, stop_reason,
                    result, error >>

NextDigest == BuildDigestCall \/ UpdateDigestCall

SpecDigest == InitDigest /\ [][NextDigest]_vars


\* ------------------------------------------------------------------------
\* compute_change_ratio and check_below_change_threshold on their own: two
\* texts are drawn as words joined by a gap of whitespace; the ratio is taken
\* in both argument orders and then compared with the threshold.
\* ------------------------------------------------------------------------
RatioWordLists == UNION { [ 1..n -> { << "a" >>, << "b" >> } ] : n \in 0..MaxWords }
RatioGaps == { << " " >>, << " ", " " >>, << "\n" >> }

RatioText(words, gap) ==
    Flatten([ i \in 1..Len(words) |-> IF i = 1 THEN words[i] ELSE gap \o words[i] ])

RatioConfigs ==
    { [ CollectConfig EXCEPT !.change_threshold = t ] : t \in { 0, 50, 100 } }

RatioArguments ==
    { [ words1 |-> w1, gap1 |-> g1, words2 |-> w2, gap2 |-> g2,
        text1 |-> RatioText(w1, g1), text2 |-> RatioText(w2, g2) ] :
        w1 \in RatioWordLists, w2 \in RatioWordLists, g1 \in RatioGaps, g2 \in RatioGaps }

InitRatio ==
    /\ config \in RatioConfigs
    /\ probe \in { Some(a) : a \in { b \in RatioArguments :
                       /\ Len(b.words1) < 2 => b.gap1 = << " " >>
                       /\ Len(b.words2) < 2 => b.gap2 = << " " >> } }
    /\ pc = "ratio"
    /\ IdleRun

RatioEntry(text1, text2, returned) ==
    [ text1 |-> text1, text2 |-> text2, returned |-> returned ]

\* compute_change_ratio, lines 115-127: first on (text1, text2), then on
\* (text2, text1).
RatioCall ==
    /\ pc = "ratio"
    /\ \E a \in { Get(probe) } :
       \E t1 \in { IF Len(calls) = 0 THEN a.text1 ELSE a.text2 } :
       \E t2 \in { IF Len(calls) = 0 THEN a.text2 ELSE a.text1 } :
       \E ratio \in { compute_change_ratio(t1, t2) } :
          /\ calls' = Append(calls, RatioEntry(t1, t2, ratio))
          /\ pc' = IF Len(calls) = 0 THEN "ratio" ELSE "below_threshold"
    /\ UNCHANGED << config, probe, idx, round_responses, round_failed, all_responses,
                    round_indices, all_failed_models, current_round, previous_candidate,
                    mediator_state, digest, budget, responses_for_mediator, stop_reason,
                    result, error >>

\* check_below_change_threshold, lines 71-72.
BelowThresholdCall ==
    /\ pc = "below_threshold"
    /\ \E a \in { Get(probe) } :
       \E below \in { check_below_change_threshold(a.text1, a.text2, config) } :
          /\ result' = Some(below)
          /\ pc' = "returned"
    /\ UNCHANGED << config, probe, idx, round_responses, round_failed, all_responses,
                    round_indices, all_failed_models, current_round, previous_candidate,
                    mediator_state, digest, budget, responses_for_mediator, stop_reason,
                    error, calls >>

NextRatio == RatioCall \/ BelowThresholdCall

SpecRatio == InitRatio /\ [][NextRatio]_vars


\* ------------------------------------------------------------------------
\* _analyze_critiques and _build_disagreement_summary on their own: a list
\* of critiques is drawn, tallied, and summarised with that tally as lines
\* 281-293 do.
\* ------------------------------------------------------------------------
SummaryCritiques ==
    { Response(1, << >>, approve, critical, objections, missing, << >>) :
        approve \in BOOLEAN, critical \in BOOLEAN,
        objections \in { << >>, << << "a" >> >>, << << "b" >>, << "c" >> >> },
        missing \in { << >>, << << "c" >>, << "b" >> >> } }

SummaryCritiqueLists == UNION { [ 1..n -> SummaryCritiques ] : n \in 0..MaxCritiques }

InitSummary ==
    /\ config = CollectConfig
    /\ probe \in { Some(cs) : cs \in SummaryCritiqueLists }
    /\ pc = "analyze"
    /\ IdleRun

\* _analyze_critiques, lines 639-649.
AnalyzeCall ==
    /\ pc = "analyze"
    /\ \E tally \in { _analyze_critiques(Get(probe)) } :
          /\ result' = Some([ approval_count |-> tally[1], critical_objections |-> tally[2],
                              summary |-> None ])
          /\ pc' = "summarise"
    /\ UNCHANGED << config, probe, idx, round_responses, round_failed, all_responses,
                    round_indices, all_failed_models, current_round, previous_candidate,
                    mediator_state, digest, budget, responses_for_mediator, stop_reason,
                    error, calls >>

\* _build_disagreement_summary, lines 717-753, called as at lines 285-291.
SummaryCall ==
    /\ pc = "summarise"
    /\ \E tally \in { Get(result) } :
       \E summary \in { _build_disagreement_summary(Get(probe), tally.critical_objections,
                            tally.approval_count, Len(config.models),
                            config.approval_ratio) } :
          /\ result' = Some([ tally EXCEPT !.summary = Some(summary) ])
          /\ pc' = "returned"
    /\ UNCHANGED << config, probe, idx, round_responses, round_failed, all_responses,
                    round_indices, all_failed_models, current_round, previous_candidate,
                    mediator_state, digest, budget, responses_for_mediator, stop_reason,
                    error, calls >>

NextSummary == AnalyzeCall \/ SummaryCall

SpecSummary == InitSummary /\ [][NextSummary]_vars


\* ------------------------------------------------------------------------
\* main (__main__.py 232-272) around run_consensus: load_config either
\* raises ConfigError or gives the configuration of the run; the process exit
\* code and what is written to the error stream are kept in probe.
\* ------------------------------------------------------------------------
InitMain ==
    \/ Init
    \/ /\ config = CollectConfig
       /\ pc = "config_error"
       /\ probe = None
       /\ IdleRun

\* What the interpreter does with an exception that leaves main (line 276):
\* a traceback on the error stream and exit status 1.
uncaught_exception == [ exit_code |-> 1, stderr |-> "traceback" ]

\* Lines 246-248.
MainConfigError ==
    /\ pc = "config_error"
    /\ probe' = Some([ exit_code |-> 1, stderr |-> "Configuration error" ])
    /\ pc' = "exited"
    /\ UNCHANGED << config, idx, round_responses, round_failed, all_responses,
                    round_indices, all_failed_models, current_round, previous_candidate,
                    mediator_state, digest, budget, responses_for_mediator, stop_reason,
                    result, error, calls >>

\* Lines 254-272: run_consensus is called outside any try block; its result's
\* exit_code is returned, and an exception it raises leaves main.
MainExit ==
    /\ pc \in { "returned", "raised" }
    /\ probe' = IF pc = "returned"
                THEN Some([ exit_code |-> Get(result).exit_code, stderr |-> "" ])
                ELSE Some(uncaught_exception)
    /\ pc' = "exited"
    /\ UNCHANGED << config, idx, round_responses, round_failed, all_responses,
                    round_indices, all_failed_models, current_round, previous_candidate,
                    mediator_state, digest, budget, responses_for_mediator, stop_reason,
                    result, error, calls >>

NextMain == Next \/ MainConfigError \/ MainExit

SpecMain == InitMain /\ [][NextMain]_vars


\* ------------------------------------------------------------------------
\* RunConfig(models=..., mediator=...) on its own: the constructor arguments
\* are drawn, __post_init__ (types.py 93-103) accepts or rejects them.
\* ------------------------------------------------------------------------
ConfigArguments ==
    [ models : UNION { [ 1..n -> 1..MaxModels ] : n \in 0..MaxModels },
      mediator : 1..(MaxModels + 1),
      max_rounds : { 0, 1 },
      approval_ratio : { 67 },
      change_threshold : { 10 },
      max_context_tokens : { None },
      no_consensus_summary : { FALSE } ]

InitConfig ==
    /\ config = CollectConfig
    /\ probe \in { Some(a) : a \in ConfigArguments }
    /\ pc = "construct"
    /\ IdleRun

\* RunConfig.__post_init__, lines 93-103: the checks read the number of models
\* and the numeric fields; no check reads a model name or the mediator.
ConstructCall ==
    /\ pc = "construct"
    /\ IF ValidRunConfig(Get(probe))
       THEN /\ result' = Some(Get(probe))
            /\ error' = None
            /\ pc' = "constructed"
       ELSE /\ error' = Some([ kind |-> "ValueError" ])
            /\ result' = None
            /\ pc' = "raised"
    /\ UNCHANGED << config, probe, idx, round_responses, round_failed, all_responses,
                    round_indices, all_failed_models, current_round, previous_candidate,
                    mediator_state, digest, budget, responses_for_mediator, stop_reason,
                    calls >>

SpecConfig == InitConfig /\ [][ConstructCall]_vars

\* run_consensus for the approval ratios 0, 0.5, 0.67 and 1, without a budget.
InitQuorumRun ==
    /\ config \in { cfg \in [ models : ModelTuples, max_rounds : 1..3,
                              approval_ratio : { 0, 50, 67, 100 }, change_threshold : { 50 },
                              max_context_tokens : { None },
                              no_consensus_summary : { FALSE } ] :
                        /\ ValidRunConfig(cfg)
                        /\ (Len(cfg.models) > 2 => cfg.max_rounds <= 2) }
    /\ pc = "round1"
    /\ probe = None
    /\ IdleRun

SpecQuorumRun == InitQuorumRun /\ [][Next]_vars


\* ------------------------------------------------------------------------
\* Observations on the call log
\* ------------------------------------------------------------------------
Returned == pc = "returned"
Raised == pc = "raised"
TheResult == Get(result)
TheError == Get(error)

RoundCalls(r) == SelectSeq(calls, LAMBDA c : c.role = "participant" /\ c.round = r)
MediatorCalls == SelectSeq(calls, LAMBDA c : c.role = "mediator")
RoundComplete(r) == Len(RoundCalls(r)) = Len(config.models)
OkModels(r) ==
    LET ok == SelectSeq(RoundCalls(r), LAMBDA c : c.outcome = "ok")
    IN [ i \in 1..Len(ok) |-> ok[i].model ]
Successes(r) == Len(OkModels(r))
FailedInLog ==
    { calls[i].model : i \in { j \in 1..Len(calls) :
          calls[j].role = "participant" /\ calls[j].outcome # "ok" } }
LastCall == calls[Len(calls)]
ModelNames(responses) == [ i \in 1..Len(responses) |-> responses[i].model_name ]
CritiqueRoundsRun == Cardinality({ calls[i].round : i \in { j \in 1..Len(calls) :
                         calls[j].role = "participant" /\ calls[j].round >= 2 } })
GateFailure == Raised /\ TheError.kind \in { "ZeroResponseError", "QuorumError" }

\* ------------------------------------------------------------------------
\* Claims about run_consensus
\* ------------------------------------------------------------------------

\* C2: run_consensus always terminates: whatever the calls do, the run eventually
\* returns a result or raises, and it never runs more than max_rounds - 1
\* critique rounds.
C2_RunTerminates ==
    /\ <>(Returned \/ Raised)
    /\ [](CritiqueRoundsRun <= config.max_rounds - 1)

C2_Witness ==
    /\ Returned
    /\ config.max_rounds >= 3
    /\ CritiqueRoundsRun = config.max_rounds - 1

\* C3: whenever run_consensus returns, 1 <= rounds_completed <= max_rounds;
\* with max_rounds = 1 it returns rounds_completed = 1 and no critique is
\* ever requested from a participant.
C3_RoundsCompletedBounded ==
    /\ Returned => /\ 1 <= TheResult.rounds_completed
                   /\ TheResult.rounds_completed <= config.max_rounds
    /\ config.max_rounds = 1 =>
          /\ Returned => TheResult.rounds_completed = 1
          /\ \A i \in 1..Len(calls) : calls[i].role = "participant" => calls[i].round = 1

C3_Witness ==
    /\ Returned
    /\ config.max_rounds = 1
    /\ TheResult.rounds_completed = 1
    /\ Len(MediatorCalls) = 1

\* The critiques of the last critique round that ran (none when only round 1 ran).
LastCritiques == IF CritiqueRoundsRun = 0 THEN << >> ELSE round_responses
LastApprovals == Cardinality({ i \in 1..Len(LastCritiques) : LastCritiques[i].approve })
LastCriticals ==
    Flatten([ i \in 1..Len(LastCritiques) |->
                IF LastCritiques[i].critical THEN LastCritiques[i].objections ELSE << >> ])

\* C4: in every returned result, the final MediatorState carries the tally of the
\* last critique round that ran (0 approvals and no objections when none ran),
\* and consensus_reached is true iff that approval_count >= quorum and no
\* critical objection is stored.
C4_ConsensusIffQuorumAndNoCritical ==
    Returned =>
        /\ TheResult.mediator_state.approval_count = LastApprovals
        /\ TheResult.mediator_state.critical_objections = LastCriticals
        /\ TheResult.consensus_reached
             <=> (LastApprovals >= quorum(config) /\ Len(LastCriticals) = 0)

C4_Witness ==
    /\ Returned
    /\ CritiqueRoundsRun >= 1
    /\ LastApprovals >= quorum(config)
    /\ Len(LastCriticals) > 0
    /\ ~TheResult.consensus_reached

\* C5: whenever the critique loop stops, the final MediatorState carries a
\* disagreement summary iff the stop reason is not consensus_reached.
C5_SummaryIffNotConsensusStop ==
    (Returned /\ stop_reason # "") =>
        (~IsNone(TheResult.mediator_state.disagreement_summary)
             <=> stop_reason # "consensus_reached")

C5_Witness ==
    /\ Returned
    /\ stop_reason = "below_change_threshold"
    /\ ~IsNone(TheResult.mediator_state.disagreement_summary)

\* C6: the output is the candidate answer alone when no_consensus_summary was
\* passed or no summary was generated, and otherwise the candidate answer, a
\* blank line and the summary; the candidate answer is always a prefix of it.
C6_OutputIsCandidatePlusSummary ==
    Returned =>
        LET state == TheResult.mediator_state
        IN /\ IF config.no_consensus_summary \/ IsNone(state.disagreement_summary)
              THEN TheResult.output = state.candidate_answer
              ELSE TheResult.output =
                       state.candidate_answer \o << "\n", "\n" >>
                           \o Get(state.disagreement_summary)
           /\ IsPrefix(state.candidate_answer, TheResult.output)

C6_Witness ==
    /\ Returned
    /\ ~config.no_consensus_summary
    /\ ~IsNone(TheResult.mediator_state.disagreement_summary)
    /\ Len(TheResult.output) > Len(TheResult.mediator_state.candidate_answer) + 2

\* C7: a mediator call that raises a provider-kind or parse-kind error is the
\* last call of the run: the run raises that very error, returns no result,
\* and calls no participant or mediator afterwards.
C7_MediatorFailureAborts ==
    \A i \in 1..Len(calls) :
        (calls[i].role = "mediator" /\ calls[i].outcome # "ok") =>
            /\ i = Len(calls)
            /\ Raised
            /\ error = Some([ kind |-> calls[i].outcome ])
            /\ IsNone(result)

C7_Witness ==
    /\ Raised
    /\ Len(calls) > 0
    /\ LastCall.role = "mediator"
    /\ LastCall.round >= 2
    /\ LastCall.outcome = "ParseError"
    /\ TheError.kind = "ParseError"

\* The rounds that appear in the call log.
RoundsInLog == { calls[i].round : i \in 1..Len(calls) }
FailedIn(r) ==
    { calls[i].model : i \in { j \in 1..Len(calls) :
          calls[j].role = "participant" /\ calls[j].round = r /\ calls[j].outcome # "ok" } }
\* The run stopped with an error right after the participant calls of round r.
AbortedAfterRound(r) ==
    /\ Raised
    /\ LastCall.role = "participant"
    /\ LastCall.round = r

\* C8: in any round where at least quorum (and at least one) participants
\* succeed, the run does not abort: it goes on with exactly the successful
\* responses, and every model that failed in such a round is in the metadata
\* failed_models of the result, which is sorted by name without duplicates.
C8_ParticipantFailureDoesNotAbort ==
    /\ \A r \in RoundsInLog :
          (RoundComplete(r) /\ Successes(r) >= Max2(quorum(config), 1)) =>
              /\ ~AbortedAfterRound(r)
              /\ (pc \in { "synth", "update" } /\ current_round = r) =>
                     ModelNames(round_responses) = OkModels(r)
              /\ Returned => FailedIn(r) \subseteq Range(TheResult.metadata.failed_models)
    /\ Returned => IsStrictlyAscending(TheResult.metadata.failed_models)

\* C9: every round passes the quorum gate after all of its participant calls
\* and before any later call: no success raises the zero-response failure,
\* fewer successes than quorum raise the quorum failure with received =
\* successes and required = quorum, and in both cases nothing is called
\* afterwards; otherwise the gate raises nothing. A gate failure only ever
\* follows a complete round, and a mediator is only called after a round
\* that passed.
C9_QuorumGateEveryRound ==
    /\ \A r \in RoundsInLog :
          RoundComplete(r) =>
              /\ Successes(r) = 0 =>
                    /\ AbortedAfterRound(r)
                    /\ TheError.kind = "ZeroResponseError"
              /\ (0 < Successes(r) /\ Successes(r) < quorum(config)) =>
                    /\ AbortedAfterRound(r)
                    /\ TheError = [ kind |-> "QuorumError", received |-> Successes(r),
                                    required |-> quorum(config) ]
              /\ (Successes(r) >= quorum(config) /\ Successes(r) > 0) =>
                    ~(GateFailure /\ LastCall.round = r)
    /\ GateFailure => /\ LastCall.role = "participant"
                      /\ RoundComplete(LastCall.round)
    /\ \A i \in 1..Len(calls) :
          /\ calls[i].role = "mediator" =>
                /\ RoundComplete(calls[i].round)
                /\ Successes(calls[i].round) >= Max2(quorum(config), 1)
          /\ (calls[i].role = "participant" /\ calls[i].round > 1) =>
                /\ RoundComplete(calls[i].round - 1)
                /\ Successes(calls[i].round - 1) >= Max2(quorum(config), 1)

C9_Witness ==
    /\ Raised
    /\ TheError.kind = "QuorumError"
    /\ LastCall.round >= 2
    /\ TheError.received = 1
    /\ TheError.required = 2


\* ------------------------------------------------------------------------
\* Claim about should_stop (SpecStop)
\* ------------------------------------------------------------------------
StopArgs == Get(probe)
StopReturned == pc = "should_stop_returned"
StopValue == Get(StopArgs.returned)
ConsensusHolds ==
    /\ 100 * StopArgs.approval_count >= Len(config.models) * config.approval_ratio
    /\ StopArgs.critical_objections = << >>
MaxRoundsHolds == StopArgs.current_round >= config.max_rounds
BelowThresholdHolds ==
    /\ ~IsNone(StopArgs.previous_candidate)
    /\ check_below_change_threshold(Get(StopArgs.previous_candidate),
                                    StopArgs.new_candidate, config)
NoChangesHolds == check_no_changes_proposed(StopArgs.critiques)

\* C1: should_stop returns (True, reason) for the first of consensus_reached,
\* max_rounds_reached, below_change_threshold, no_changes_proposed that holds,
\* and (False, "") exactly when none holds; when consensus holds and the round
\* is at max_rounds the reason is consensus_reached.
C1_FirstCheckWins ==
    StopReturned =>
        /\ StopValue[2] = "consensus_reached" <=> ConsensusHolds
        /\ StopValue[2] = "max_rounds_reached" <=> (~ConsensusHolds /\ MaxRoundsHolds)
        /\ StopValue[2] = "below_change_threshold"
             <=> (~ConsensusHolds /\ ~MaxRoundsHolds /\ BelowThresholdHolds)
        /\ StopValue[2] = "no_changes_proposed"
             <=> (~ConsensusHolds /\ ~MaxRoundsHolds /\ ~BelowThresholdHolds
                     /\ NoChangesHolds)
        /\ StopValue = << FALSE, "" >>
             <=> ~(ConsensusHolds \/ MaxRoundsHolds \/ BelowThresholdHolds
                      \/ NoChangesHolds)
        /\ StopValue[1] <=> StopValue[2] # ""

C1_Witness ==
    /\ StopReturned
    /\ ConsensusHolds
    /\ MaxRoundsHolds
    /\ BelowThresholdHolds
    /\ NoChangesHolds
    /\ StopValue = << TRUE, "consensus_reached" >>


\* ------------------------------------------------------------------------
\* Claim about collect_responses_with_failures (SpecCollect)
\* ------------------------------------------------------------------------
CollectModels == Get(probe).models
CalledNames == [ i \in 1..Len(calls) |-> calls[i].model ]
Occurrences(seq, x) == Cardinality({ i \in 1..Len(seq) : seq[i] = x })

\* C10: collect_responses_with_failures calls call_fn once per model in
\* ascending name order whatever the order of the input; when it is done every
\* model is in exactly one of the two results, both in ascending name order.
C10_EachModelCalledOnceInOrder ==
    /\ IsAscending(CalledNames)
    /\ \A m \in Range(CollectModels) :
          Occurrences(CalledNames, m) <= Occurrences(CollectModels, m)
    /\ pc # "collect" =>
          /\ Returned
          /\ \A m \in Range(CollectModels) :
                /\ Occurrences(CalledNames, m) = Occurrences(CollectModels, m)
                /\ Occurrences(ModelNames(TheResult.successful_responses), m)
                     + Occurrences(TheResult.failed_models, m)
                     = Occurrences(CollectModels, m)
          /\ IsAscending(ModelNames(TheResult.successful_responses))
          /\ IsAscending(TheResult.failed_models)

\* The number of failed calls of model m in the call log.
FailedCalls(m) ==
    Cardinality({ i \in 1..Len(calls) : calls[i].model = m /\ calls[i].outcome # "ok" })

\* C11: every participant-call failure, provider-kind or parse-kind, is caught
\* inside the collector and recorded under the failing model's name: nothing
\* propagates out of the collection, and the remaining models are still called.
C11_FailuresCaughtInCollector ==
    /\ ~Raised
    /\ \A m \in Range(CollectModels) : FailedCalls(m) = Occurrences(round_failed, m)
    /\ Returned => Len(calls) = Len(CollectModels)


\* ------------------------------------------------------------------------
\* Claim about execute_with_retry (SpecRetry)
\* ------------------------------------------------------------------------
RetryKinds == { "timeout", "network", "rate_limit", "service_unavailable" }
\* Call number i raised an error of a retryable kind.
RetryableFailure(i) ==
    /\ ~IsNone(calls[i].raised)
    /\ Get(calls[i].raised).kind = "ProviderError"
    /\ ~IsNone(Get(calls[i].raised).code)
    /\ Get(Get(calls[i].raised).code) \in RetryKinds
RetryDone == pc \in { "returned", "raised" }

\* C12: execute_with_retry calls fn until the first call that succeeds or
\* raises a non-retryable error, or until max_retries + 1 calls were made; it
\* returns the value of the successful call or re-raises the error of the last
\* call. So k retryable failures then a success are k + 1 calls, and a
\* non-retryable first error is one call.
C12_RetryUntilSuccessOrExhausted ==
    /\ Len(calls) <= Get(probe).max_retries + 1
    /\ \A i \in 1..(Len(calls) - 1) : RetryableFailure(i)
    /\ RetryDone <=>
          /\ Len(calls) > 0
          /\ \/ ~RetryableFailure(Len(calls))
             \/ Len(calls) = Get(probe).max_retries + 1
    /\ Returned <=> (Len(calls) > 0 /\ ~IsNone(LastCall.returned))
    /\ Returned => result = LastCall.returned /\ IsNone(error)
    /\ Raised => error = LastCall.raised /\ IsNone(result)

C12_Witness ==
    /\ Returned
    /\ Get(probe).max_retries = 2
    /\ Len(calls) = 3
    /\ RetryableFailure(1)
    /\ RetryableFailure(2)
    /\ result = Some("r2")


\* ------------------------------------------------------------------------
\* Claims about ContextBudget and track_usage (SpecBudget)
\* ------------------------------------------------------------------------
BudgetArgs == Get(probe)
ArgumentsInRange ==
    /\ BudgetArgs.max_tokens >= 1
    /\ 0 <= BudgetArgs.used_tokens
    /\ BudgetArgs.used_tokens <= BudgetArgs.max_tokens

\* C13: every ContextBudget value that exists has max_tokens >= 1 and
\* 0 <= used_tokens <= max_tokens: a construction that violates this, in the
\* constructor call or inside track_usage, raises and yields no value.
C13_BudgetAlwaysInRange ==
    /\ ~IsNone(budget) =>
          /\ Get(budget).max_tokens >= 1
          /\ 0 <= Get(budget).used_tokens
          /\ Get(budget).used_tokens <= Get(budget).max_tokens
    /\ pc # "new_budget" =>
          IF ArgumentsInRange THEN ~IsNone(budget) /\ pc = "budget"
          ELSE IsNone(budget) /\ Raised /\ error = Some([ kind |-> "ValueError" ])

C13_Witness ==
    /\ pc = "budget"
    /\ Len(calls) = 2
    /\ calls[1].outcome = "ok"
    /\ LastCall.tokens > 0
    /\ LastCall.outcome = "ValueError"
    /\ Get(budget).used_tokens = Get(budget).max_tokens


\* The budget was constructed fresh: ContextBudget(max_tokens).
FreshBudget == BudgetArgs.used_tokens = 0 /\ BudgetArgs.round_usage = << >>
\* Tokens tracked for round index r by the calls that returned.
TokensTrackedFor(r) ==
    SumSeq([ i \in 1..Len(calls) |->
               IF calls[i].outcome = "ok" /\ calls[i].round_idx = r THEN calls[i].tokens
               ELSE 0 ])
TokensTracked ==
    SumSeq([ i \in 1..Len(calls) |-> IF calls[i].outcome = "ok" THEN calls[i].tokens ELSE 0 ])
RoundsTracked == { calls[i].round_idx : i \in { j \in 1..Len(calls) : calls[j].outcome = "ok" } }
UsageAccumulated ==
    (pc = "budget" /\ FreshBudget) =>
        /\ Len(Get(budget).round_usage)
             = (IF RoundsTracked = { } THEN 0
                ELSE 1 + CHOOSE r \in RoundsTracked : \A q \in RoundsTracked : q <= r)
        /\ \A i \in 1..Len(Get(budget).round_usage) :
              Get(budget).round_usage[i] = TokensTrackedFor(i - 1)
        /\ Get(budget).used_tokens = TokensTracked
        /\ Get(budget).max_tokens = BudgetArgs.max_tokens
        /\ \A i \in 1..Len(calls) : calls[i].tokens < 0 => calls[i].outcome = "ValueError"
NegativeLeavesBudget ==
    (Len(calls') = Len(calls) + 1 /\ calls'[Len(calls')].tokens < 0) =>
        (budget' = budget /\ error' = Some([ kind |-> "ValueError" ]))

\* C14: after any successful track_usage calls on a fresh budget, round_usage[i]
\* is the sum of the tokens tracked for round index i (0 for skipped indices),
\* used_tokens is their total and max_tokens is unchanged; a call with negative
\* tokens is rejected and leaves the budget as it was.
C14_UsageAccumulatesPerRound ==
    /\ []UsageAccumulated
    /\ [][NegativeLeavesBudget]_vars

C14_Witness ==
    /\ pc = "budget"
    /\ FreshBudget
    /\ Len(calls) = 3
    /\ calls[1] = TrackCall(1, 2, "ok")
    /\ calls[2] = TrackCall(0 - 1, 0, "ValueError")
    /\ calls[3] = TrackCall(2, 2, "ok")
    /\ Get(budget).round_usage = << 0, 0, 3 >>


\* ------------------------------------------------------------------------
\* Claims about truncate_oldest_rounds (SpecTruncate)
\* ------------------------------------------------------------------------
TruncArgs == Get(probe)
MostRecentRound ==
    CHOOSE r \in Range(TruncArgs.round_indices) :
        \A q \in Range(TruncArgs.round_indices) : q <= r

\* C15: truncate_oldest_rounds never removes a response of the highest round
\* index present, whatever target_tokens is.
C15_MostRecentRoundKept ==
    (Returned /\ Len(TruncArgs.responses) > 0) =>
        \A i \in 1..Len(TruncArgs.responses) :
            TruncArgs.round_indices[i] = MostRecentRound =>
                TruncArgs.responses[i] \in Range(TheResult)

C15_Witness ==
    /\ Returned
    /\ Len(TruncArgs.responses) = 3
    /\ TruncArgs.target_tokens = 0
    /\ TruncArgs.round_indices = << 2, 0, 2 >>
    /\ TokensFrom(TruncArgs.responses, TruncArgs.round_indices, 2) = 3
    /\ Len(TheResult) = 2

\* The round indices r present whose rounds >= r fit the target together.
FittingRounds ==
    { r \in Range(TruncArgs.round_indices) :
        SumSeq([ i \in 1..Len(TruncArgs.responses) |->
                   IF TruncArgs.round_indices[i] >= r
                   THEN count_response_tokens(TruncArgs.responses[i]) ELSE 0 ])
            <= TruncArgs.target_tokens }
ExpectedCutoff ==
    IF FittingRounds = { } THEN MostRecentRound
    ELSE CHOOSE r \in FittingRounds : \A q \in FittingRounds : r <= q
ExpectedKept ==
    LET P == { i \in 1..Len(TruncArgs.responses) :
                 TruncArgs.round_indices[i] >= ExpectedCutoff }
    IN [ k \in 1..Cardinality(P) |->
           TruncArgs.responses[CHOOSE i \in P : Cardinality({ j \in P : j < i }) = k - 1] ]

\* C16: the result of truncate_oldest_rounds is, in the original order, exactly
\* the responses of round index >= r, r being the smallest round index whose
\* rounds from r on fit target_tokens, or the most recent round index when none
\* fits; arguments of different lengths are rejected with an error.
C16_EvictsOldestFirstNoMoreThanNeeded ==
    pc # "truncate" =>
        IF Len(TruncArgs.responses) # Len(TruncArgs.round_indices)
        THEN Raised /\ IsNone(result)
        ELSE /\ Returned
             /\ TheResult = (IF Len(TruncArgs.responses) = 0 THEN << >> ELSE ExpectedKept)

C16_Witness ==
    /\ Returned
    /\ TruncArgs.round_indices = << 1, 0, 2 >>
    /\ TruncArgs.target_tokens = 3
    /\ TokensFrom(TruncArgs.responses, TruncArgs.round_indices, 0) = 4
    /\ TokensFrom(TruncArgs.responses, TruncArgs.round_indices, 1) = 3
    /\ ModelNames(TheResult) = << 1, 3 >>


\* ------------------------------------------------------------------------
\* Claim about the context of a critique round (SpecBudgetedRun)
\* ------------------------------------------------------------------------
\* A critique round is being collected and lines 214-222 evicted something.
RoundTruncated ==
    /\ pc = "critique"
    /\ ~IsNone(budget)
    /\ Len(responses_for_mediator) < Len(all_responses)
Survivors == Range(responses_for_mediator)

\* C17: when the accumulated responses would exceed the budget, the digest
\* handed to the participants of that critique round (line 235) holds only what
\* the responses that survive truncate_oldest_rounds contribute: no common
\* point, objection, missing item or edit of an evicted response only.
C17_ContextFromSurvivorsOnly ==
    RoundTruncated =>
        /\ \A x \in Range(digest.common_points) :
              \E r \in Survivors : x \in Range(_split_into_sentences(r.answer))
        /\ \A x \in Range(digest.objections) : \E r \in Survivors : x \in Range(r.objections)
        /\ \A x \in Range(digest.missing) : \E r \in Survivors : x \in Range(r.missing)
        /\ \A x \in Range(digest.suggested_edits) : \E r \in Survivors : x \in Range(r.edits)


\* ------------------------------------------------------------------------
\* Claims about the digest (SpecDigest, Spec)
\* ------------------------------------------------------------------------
\* The lists the digest lists are counted over: every sentence of every answer,
\* and every objection, missing item and edit of every response.
AllSentences(responses) ==
    Flatten([ i \in 1..Len(responses) |-> _split_into_sentences(responses[i].answer) ])
AllObjections(responses) == Flatten([ i \in 1..Len(responses) |-> responses[i].objections ])
AllMissing(responses) == Flatten([ i \in 1..Len(responses) |-> responses[i].missing ])
AllEdits(responses) == Flatten([ i \in 1..Len(responses) |-> responses[i].edits ])

NoDuplicates(list) == \A i, j \in 1..Len(list) : i # j => list[i] # list[j]

\* Descending occurrence count in source, ties in ascending lexical order.
OrderedByCountThenAlpha(list, source) ==
    \A i \in 1..(Len(list) - 1) :
        \/ Count(source, list[i]) > Count(source, list[i + 1])
        \/ /\ Count(source, list[i]) = Count(source, list[i + 1])
           /\ TextLess(list[i], list[i + 1])

DigestBuilt == pc = "built"

\* C18: for every set of responses, each list of the digest built by
\* build_digest has no duplicate entry and is ordered by descending occurrence
\* count, ties by ascending lexical order; no responses give four empty lists.
C18_DigestListsDedupedAndOrdered ==
    DigestBuilt =>
        LET responses == Get(probe)
        IN /\ NoDuplicates(digest.common_points)
           /\ NoDuplicates(digest.objections)
           /\ NoDuplicates(digest.missing)
           /\ NoDuplicates(digest.suggested_edits)
           /\ OrderedByCountThenAlpha(digest.common_points, AllSentences(responses))
           /\ OrderedByCountThenAlpha(digest.objections, AllObjections(responses))
           /\ OrderedByCountThenAlpha(digest.missing, AllMissing(responses))
           /\ OrderedByCountThenAlpha(digest.suggested_edits, AllEdits(responses))
           /\ Len(responses) = 0 => digest = Digest(<< >>, << >>, << >>, << >>)

\* A digest whose first objection precedes the second by count, against the
\* lexical order, built from responses that repeat an objection.
C18_Witness ==
    /\ DigestBuilt
    /\ digest.objections = << << "b" >>, << "a" >> >>
    /\ digest.common_points = << << "b" >>, << "a" >> >>
    /\ Len(AllObjections(Get(probe))) = 3

\* The responses of round 1, from which line 195 builds the digest.
Round1Responses ==
    IF pc = "synth" THEN round_responses
    ELSE Take(all_responses,
              Cardinality({ i \in 1..Len(round_indices) : round_indices[i] = 0 }))
Round1Collected == pc = "synth" \/ Len(all_responses) > 0

CommonPointsFromRound1 ==
    /\ Round1Collected => digest.common_points = _extract_common_points(Round1Responses)
    /\ (Returned /\ Round1Collected) =>
          TheResult.digest.common_points = _extract_common_points(Round1Responses)

\* A step of a critique round (line 264) leaves common_points alone.
CommonPointsKept == pc = "critique" => digest'.common_points = digest.common_points

\* C19: update_digest_from_critiques never changes common_points: in every
\* run, after any number of critique rounds, the digest's common_points are
\* those built from the round-1 responses, whatever the critiques contain.
C19_CommonPointsPreserved == []CommonPointsFromRound1 /\ [][CommonPointsKept]_vars

C19_Witness ==
    /\ Returned
    /\ TheResult.rounds_completed >= 3
    /\ Len(TheResult.digest.common_points) > 0
    /\ Len(TheResult.digest.objections) > 0

\* The calls of update_digest_from_critiques with an empty critique list.
EmptyUpdates == { i \in 1..Len(calls) : calls[i].critiques = << >> }

AscendingTexts(list) == \A i \in 1..(Len(list) - 1) : TextLess(list[i], list[i + 1])

DedupedAscending(list, previous) ==
    /\ Range(list) = Range(previous)
    /\ AscendingTexts(list)

RatioArgs == Get(probe)
RatioIsZero(r) == r[1] = 0
SameRatio(r, q) == r[1] * q[2] = q[1] * r[2]

\* C21: compute_change_ratio(x, x) = 0 for every text x,
\* compute_change_ratio(a, b) = compute_change_ratio(b, a) for all a and b, and
\* two texts that differ only in the amount of whitespace between their tokens
\* have ratio 0.
C21_RatioZeroOnEqualAndSymmetric ==
    pc \in { "ratio", "below_threshold", "returned" } =>
        /\ \A i \in 1..Len(calls) :
              /\ calls[i].text1 = calls[i].text2 => RatioIsZero(calls[i].returned)
              /\ RatioArgs.words1 = RatioArgs.words2 => RatioIsZero(calls[i].returned)
        /\ Len(calls) = 2 => SameRatio(calls[1].returned, calls[2].returned)

\* Texts of different lengths, one edit apart, compared in both orders.
C21_Witness ==
    /\ pc = "below_threshold"
    /\ Len(RatioArgs.words1) = 1
    /\ Len(RatioArgs.words2) = 2
    /\ calls[1].returned = << 1, 2 >>
    /\ calls[2].returned = << 1, 2 >>

\* The ratio is strictly below t hundredths.
RatioBelow(r, t) == r[1] * 100 < t * r[2]
RatioAt(r, t) == r[1] * 100 = t * r[2]

\* C22: the below_change_threshold check holds iff the change ratio of the
\* previous and the new candidate is strictly less than change_threshold: a
\* ratio equal to the threshold is not below, with change_threshold = 0 the
\* check never holds, and identical candidates pass for every threshold > 0.
C22_BelowThresholdIsStrict ==
    (pc = "returned" /\ ~IsNone(probe) /\ Len(calls) = 2 /\ ~IsNone(result)) =>
        /\ TheResult <=> RatioBelow(calls[1].returned, config.change_threshold)
        /\ RatioAt(calls[1].returned, config.change_threshold) => ~TheResult
        /\ config.change_threshold = 0 => ~TheResult
        /\ (RatioArgs.text1 = RatioArgs.text2 /\ config.change_threshold > 0) => TheResult

\* A ratio of exactly one half against a threshold of one half.
C22_Witness ==
    /\ pc = "returned"
    /\ ~IsNone(probe)
    /\ Len(calls) = 2
    /\ config.change_threshold = 50
    /\ calls[1].returned = << 1, 2 >>
    /\ TheResult = FALSE


\* ------------------------------------------------------------------------
\* Claims about the tally and the disagreement summary (SpecSummary)
\* ------------------------------------------------------------------------
Tallied == pc \in { "summarise", "returned" } /\ ~IsNone(probe) /\ ~IsNone(result)
Tally == Get(result)
TalliedCritiques == Get(probe)

\* The objections of the critical critiques, critique by critique.
RECURSIVE ObjectionsOfCritical(_)
ObjectionsOfCritical(critiques) ==
    IF Len(critiques) = 0 THEN << >>
    ELSE (IF Head(critiques).critical THEN Head(critiques).objections ELSE << >>)
             \o ObjectionsOfCritical(Tail(critiques))

\* C23: _analyze_critiques returns approval_count = the number of critiques
\* with approve = true (between 0 and the number of critiques) and
\* critical_objections = the objections of the critiques with critical = true,
\* concatenated in critique order and in each critique's own order.
C23_TallyCountsAndConcatenates ==
    Tallied =>
        /\ Tally.approval_count
              = Cardinality({ i \in 1..Len(TalliedCritiques) : TalliedCritiques[i].approve })
        /\ Tally.approval_count \in 0..Len(TalliedCritiques)
        /\ Tally.critical_objections = ObjectionsOfCritical(TalliedCritiques)

\* A critical critique after a non-critical one that has objections of its own.
C23_Witness ==
    /\ Tallied
    /\ Len(TalliedCritiques) = 2
    /\ ~TalliedCritiques[1].critical /\ Len(TalliedCritiques[1].objections) = 1
    /\ TalliedCritiques[2].critical /\ TalliedCritiques[2].approve
    /\ Tally.critical_objections = << << "b" >>, << "c" >> >>
    /\ Tally.approval_count = 1

\* The text cut at its newlines.
RECURSIVE LinesFrom(_, _)
LinesFrom(text, cur) ==
    IF Len(text) = 0 THEN << cur >>
    ELSE IF Head(text) = "\n" THEN << cur >> \o LinesFrom(Tail(text), << >>)
    ELSE LinesFrom(Tail(text), Append(cur, Head(text)))

Summarised == pc = "returned" /\ ~IsNone(probe) /\ ~IsNone(result) /\ ~IsNone(Get(result).summary)
SummaryLines == LinesFrom(Get(Tally.summary), << >>)
LinesLabelled(lines, label) ==
    { i \in 1..Len(lines) : Len(lines[i]) > 0 /\ lines[i][1] = label }
\* The items of the lines with this label, in the order of the summary.
ItemsLabelled(lines, label) ==
    LET labelled == SelectSeq(lines, LAMBDA l : Len(l) > 0 /\ l[1] = label)
    IN [ i \in 1..Len(labelled) |-> Tail(labelled[i]) ]

RECURSIVE OfRejecting(_, _)
OfRejecting(critiques, field) ==
    IF Len(critiques) = 0 THEN << >>
    ELSE (IF ~Head(critiques).approve THEN Head(critiques)[field] ELSE << >>)
             \o OfRejecting(Tail(critiques), field)

\* C24: a disagreement summary lists at most 2 critical objections, then
\* objection lines so that critical plus objection lines are at most 3, then at
\* most 2 missing items; objection and missing lines come only from critiques
\* with approve = false, in critique order.
C24_SummaryCapsAndSources ==
    Summarised =>
        \E lines \in { SummaryLines } :
        \E critical \in { LinesLabelled(lines, "- Critical: ") } :
        \E objection \in { LinesLabelled(lines, "- Objection: ") } :
        \E missing \in { LinesLabelled(lines, "- Missing: ") } :
           /\ Cardinality(critical) <= 2
           /\ Cardinality(critical) + Cardinality(objection) <= 3
           /\ Cardinality(missing) <= 2
           /\ \A c \in critical, o \in objection : c < o
           /\ \A o \in objection, m \in missing : o < m
           /\ \A c \in critical, m \in missing : c < m
           /\ IsPrefix(ItemsLabelled(lines, "- Objection: "),
                       OfRejecting(TalliedCritiques, "objections"))
           /\ IsPrefix(ItemsLabelled(lines, "- Missing: "),
                       OfRejecting(TalliedCritiques, "missing"))

\* More critical objections, objections and missing items than the caps let through.
C24_Witness ==
    /\ Summarised
    /\ Cardinality(LinesLabelled(SummaryLines, "- Critical: ")) = 2
    /\ Cardinality(LinesLabelled(SummaryLines, "- Objection: ")) = 1
    /\ Cardinality(LinesLabelled(SummaryLines, "- Missing: ")) = 2
    /\ Len(Tally.critical_objections) = 4
    /\ Len(OfRejecting(TalliedCritiques, "missing")) = 4


\* ------------------------------------------------------------------------
\* Claims about the result and the order of calls (Spec)
\* ------------------------------------------------------------------------
\* The models that answered, round by round up to round n, from the call log.
AnsweredUpTo(n) == Flatten([ r \in 1..n |-> OkModels(r) ])

\* C25: ConsensusResult.responses holds all accumulated responses: the
\* successful round-1 responses in name order, followed by the successful
\* critiques of every critique round that ran (rounds 2 up to
\* rounds_completed), in round order.
C25_ResultHoldsAllResponses ==
    Returned =>
        /\ ModelNames(TheResult.responses) = AnsweredUpTo(TheResult.rounds_completed)
        /\ CritiqueRoundsRun > 0 =>
              SubSeq(TheResult.responses,
                     Len(TheResult.responses) - Len(round_responses) + 1,
                     Len(TheResult.responses)) = round_responses


\* ------------------------------------------------------------------------
\* Claim about the exit code of the process (SpecMain)
\* ------------------------------------------------------------------------
Exited == pc = "exited"
Process == Get(probe)
RunFailed == Exited /\ ~IsNone(error)

\* C26: the CLI exits with 0 whenever run_consensus returns a result, 2 when
\* a round had zero successful responses, 3 when a round was below quorum and 4
\* for any other unexpected error, and each failure writes a short message to
\* the error stream.
C26_ExitCodeFollowsOutcome ==
    Exited =>
        /\ ~IsNone(result) => Process.exit_code = 0
        /\ RunFailed =>
              /\ Process.exit_code = CASE TheError.kind = "ZeroResponseError" -> 2
                                       [] TheError.kind = "QuorumError" -> 3
                                       [] OTHER -> 4
              /\ Process.stderr \notin { "", "traceback" }


\* ------------------------------------------------------------------------
\* Claim about the construction of a RunConfig (SpecConfig)
\* ------------------------------------------------------------------------
\* C27: the mediator is never a participant: a RunConfig is constructed only
\* with at least 2 participants of pairwise distinct names and a mediator whose
\* name differs from every participant name.
C27_MediatorDisjointFromParticipants ==
    pc = "constructed" =>
        /\ Len(TheResult.models) >= 2
        /\ \A i, j \in 1..Len(TheResult.models) :
              i # j => TheResult.models[i] # TheResult.models[j]
        /\ \A i \in 1..Len(TheResult.models) : TheResult.models[i] # TheResult.mediator


\* ------------------------------------------------------------------------
\* Claim about the quorum (SpecQuorumRun)
\* ------------------------------------------------------------------------
Participants == Len(config.models)
\* q is the least integer with q >= participants x approval_ratio.
IsCeilOfRatio(q) ==
    /\ q * 100 >= Participants * config.approval_ratio
    /\ (q - 1) * 100 < Participants * config.approval_ratio

QuorumReported ==
    /\ TheResult.metadata.participants = Participants
    /\ IsCeilOfRatio(TheResult.metadata.quorum)
    /\ TheResult.metadata.quorum \in 0..Participants

RoundInNameOrder(r) ==
    LET names == [ i \in 1..Len(RoundCalls(r)) |-> RoundCalls(r)[i].model ]
    IN IsPrefix(names, sorted_models(config.models)) /\ IsStrictlyAscending(names)

\* What may follow what in the call log.
CallsInSequence(c, d) ==
    CASE c.role = "participant" /\ d.role = "participant" ->
             d.round = c.round /\ c.model < d.model
      [] c.role = "participant" /\ d.role = "mediator" ->
             d.round = c.round /\ RoundComplete(c.round)
      [] c.role = "mediator" /\ d.role = "participant" ->
             d.round = c.round + 1
      [] OTHER -> FALSE

\* C29: provider calls are strictly sequential and ordered: in each round the
\* participants are called one at a time in ascending name order, each at most
\* once; the mediator's synthesis call follows all round-1 participant calls;
\* in a critique round that does not stop, the mediator's update call follows
\* all of that round's participant calls and precedes any call of the next round.
C29_CallsSequentialInNameOrder ==
    /\ \A r \in RoundsInLog : RoundInNameOrder(r)
    /\ \A i \in 1..(Len(calls) - 1) : CallsInSequence(calls[i], calls[i + 1])
    /\ Len(calls) > 0 => (calls[1].role = "participant" /\ calls[1].round = 1)

\* Three rounds of two participants with a mediator call after rounds 1 and 2.
C29_Witness ==
    /\ Returned
    /\ Len(config.models) = 2
    /\ TheResult.rounds_completed = 3
    /\ Len(calls) = 8
    /\ calls[3].role = "mediator" /\ calls[6].role = "mediator"


\* ------------------------------------------------------------------------
\* Claim about the backoff sleeps of execute_with_retry (SpecRetry)
\* ------------------------------------------------------------------------
\* The loop variable advances once per sleep (line 131, then line 69).
Sleeps == idx
Invocations == Len(calls)

\* C30: execute_with_retry sleeps exactly once between two consecutive
\* attempts and at no other time: no sleep before the first attempt, none after
\* the last one (success, non-retryable failure or exhausted retries), so the
\* sleeps are the invocations minus one.
C30_OneSleepBetweenAttempts ==
    /\ pc = "attempt" => Sleeps = Invocations
    /\ pc = "sleep" => /\ Sleeps = Invocations - 1
                       /\ RetryableFailure(Invocations)
                       /\ Invocations < total_attempts(Get(probe))
    /\ RetryDone => Sleeps = Invocations - 1

\* Retries exhausted after three attempts and two sleeps.
C30_Witness ==
    /\ Raised
    /\ Get(probe).max_retries = 2
    /\ Invocations = 3
    /\ Sleeps = 2
    /\ RetryableFailure(3)


\* ------------------------------------------------------------------------
\* Claims about the digest across critique rounds (SpecDigest)
\* ------------------------------------------------------------------------
\* list holds exactly the items of previous and the items raised: nothing
\* lost, nothing invented.
GrownBy(list, previous, raised) == Range(list) = Range(previous) \cup Range(raised)

\* C31: every update of the digest from a round's critiques gives lists of
\* objections, missing items and suggested edits that hold every item the
\* digest held before the round and every item the round's critiques raised,
\* and nothing else; an item is never removed, raised again or not.
C31_DigestListsOnlyGrow ==
    pc \in { "built", "update_digest", "updated" } =>
        \A i \in 1..Len(calls) :
            LET d == calls[i].previous_digest
                c == calls[i].critiques
                u == calls[i].returned
            IN /\ GrownBy(u.objections, d.objections, AllObjections(c))
               /\ GrownBy(u.missing, d.missing, AllMissing(c))
               /\ GrownBy(u.suggested_edits, d.suggested_edits, AllEdits(c))

\* A second round whose critiques raise only objection a leaves objection b,
\* raised in the round before, in the digest.
C31_Witness ==
    /\ pc = "updated"
    /\ Len(calls) = 2
    /\ calls[1].previous_digest.objections = << >>
    /\ << "b" >> \in Range(calls[1].returned.objections)
    /\ AllObjections(calls[2].critiques) = << << "a" >> >>
    /\ Range(calls[2].returned.objections) = { << "a" >>, << "b" >> }

\* The first update of a digest that build_digest made of the responses in probe.
UpdatesOfBuilt == IF IsNone(probe) \/ Len(calls) = 0 THEN { } ELSE { 1 }

\* C32 as stated: updating build_digest(R) with the critiques C gives the
\* objections, missing items and suggested edits of build_digest(R followed by
\* C), in the same order.
C32_MergeEqualsRebuild ==
    pc \in { "built", "update_digest", "updated" } =>
        \A i \in UpdatesOfBuilt :
        \E rebuilt \in { build_digest(Get(probe) \o calls[i].critiques) } :
            LET u == calls[i].returned
            IN /\ u.objections = rebuilt.objections
               /\ u.missing = rebuilt.missing
               /\ u.suggested_edits = rebuilt.suggested_edits

\* list holds the items of rebuilt, ordered by their count in previous (a
\* duplicate-free list, so one per item the digest held) followed by raised.
MergedOrder(list, rebuilt, previous, raised) ==
    /\ Range(list) = Range(rebuilt)
    /\ Len(list) = Len(rebuilt)
    /\ OrderedByCountThenAlpha(list, previous \o raised)

\* C32, amended: updating build_digest(R) with the critiques C gives the same
\* items as build_digest(R followed by C) in each of the three lists, each
\* once; their order is by descending count where an item of the previous
\* digest counts once however often R raised it, plus its occurrences in C,
\* ties in ascending lexical order, which can differ from the rebuilt order.
C32_MergeHasRebuiltItems ==
    pc \in { "built", "update_digest", "updated" } =>
        \A i \in UpdatesOfBuilt :
        \E rebuilt \in { build_digest(Get(probe) \o calls[i].critiques) } :
            LET d == calls[i].previous_digest
                c == calls[i].critiques
                u == calls[i].returned
            IN /\ MergedOrder(u.objections, rebuilt.objections, d.objections, AllObjections(c))
               /\ MergedOrder(u.missing, rebuilt.missing, d.missing, AllMissing(c))
               /\ MergedOrder(u.suggested_edits, rebuilt.suggested_edits,
                              d.suggested_edits, AllEdits(c))

\* Two responses object b, one critique objects a: the merge ranks a first, the
\* rebuild ranks b first.
C32_Witness ==
    /\ pc = "updated"
    /\ ~IsNone(probe)
    /\ Len(calls) >= 1
    /\ AllObjections(Get(probe)) = << << "b" >>, << "b" >> >>
    /\ AllObjections(calls[1].critiques) = << << "a" >> >>
    /\ calls[1].returned.objections = << << "a" >>, << "b" >> >>
    /\ build_digest(Get(probe) \o calls[1].critiques).objections = << << "b" >>, << "a" >> >>


\* ------------------------------------------------------------------------
\* Claims about the state a stopped loop returns (Spec)
\* ------------------------------------------------------------------------
\* The candidate the critiques of the round in progress are asked about
\* (line 233: mediator_state.candidate_answer).
EvaluatedCandidate == Get(mediator_state).candidate_answer

\* C33: during a critique round the candidate under evaluation does not
\* change, and when the round stops the loop the returned mediator state holds
\* that candidate together with the approval count and the critical objections
\* tallied from that round's critiques.
C33_StopPairsCandidateWithItsTally ==
    [][ pc = "critique" =>
          /\ pc' # "raised" => EvaluatedCandidate' = EvaluatedCandidate
          /\ pc' = "returned" =>
                /\ Get(result').mediator_state.candidate_answer = EvaluatedCandidate
                /\ Get(result').mediator_state.approval_count
                      = _analyze_critiques(round_responses')[1]
                /\ Get(result').mediator_state.critical_objections
                      = _analyze_critiques(round_responses')[2]
                /\ Get(result').rounds_completed = current_round ]_vars

\* A run stopped in round 3: the candidate is the one the mediator produced
\* after round 2, one critique approved it and one raised critical objections.
C33_Witness ==
    /\ Returned
    /\ TheResult.rounds_completed = 3
    /\ Len(MediatorCalls) = 2
    /\ TheResult.mediator_state.candidate_answer \in Candidates
    /\ TheResult.mediator_state.approval_count = 1
    /\ Len(TheResult.mediator_state.critical_objections) > 0


\* ------------------------------------------------------------------------
\* Claim about the number of mediator calls (Spec)
\* ------------------------------------------------------------------------
\* C34: a run that returns with rounds_completed = R has called the mediator
\* exactly max(1, R - 1) times: the synthesis after round 1 and one update
\* after each critique round but the one that stopped the loop. No run, returned
\* or not, calls it more than max(1, max_rounds - 1) times.
C34_MediatorCallsAreRoundsMinusOne ==
    /\ Len(MediatorCalls) <= Max2(1, config.max_rounds - 1)
    /\ Returned => Len(MediatorCalls) = Max2(1, TheResult.rounds_completed - 1)

\* A run of four rounds with three mediator calls: the synthesis in round 1 and
\* the updates of rounds 2 and 3.
C34_Witness ==
    /\ Returned
    /\ TheResult.rounds_completed = 4
    /\ Len(MediatorCalls) = 3
    /\ [ i \in 1..3 |-> MediatorCalls[i].round ] = << 1, 2, 3 >>


\* ------------------------------------------------------------------------
\* Claim about the rounds the change threshold can stop (Spec)
\* ------------------------------------------------------------------------
\* C35: a run stops with reason below_change_threshold only in a round k with
\* 3 <= k < max_rounds, hence only under max_rounds >= 4: round 2 has no
\* previous candidate to compare with, and in round max_rounds the max-rounds
\* check comes first.
C35_ThresholdStopsOnlyMiddleRounds ==
    stop_reason = "below_change_threshold" =>
        /\ Returned
        /\ TheResult.rounds_completed = current_round
        /\ 3 <= current_round
        /\ current_round < config.max_rounds
        /\ config.max_rounds >= 4
        /\ ~IsNone(previous_candidate)

\* A run of at most four rounds stopped in round 3 by the change threshold.
C35_Witness ==
    /\ Returned
    /\ stop_reason = "below_change_threshold"
    /\ TheResult.rounds_completed = 3
    /\ config.max_rounds = 4


\* ------------------------------------------------------------------------
\* Claims about the disagreement summary of a returned run (Spec)
\* ------------------------------------------------------------------------
NoConsensus == Returned /\ ~TheResult.consensus_reached
HasSummary == Truthy(TheResult.mediator_state.disagreement_summary)

\* C36 as stated: every run returning with consensus_reached = false has a
\* non-empty disagreement summary in its final mediator state, whatever
\* max_rounds >= 1 is.
C36_NoConsensusHasSummary == NoConsensus => HasSummary

\* C36, amended: a run returning with consensus_reached = false has a
\* non-empty disagreement summary exactly when a critique round ran, that is
\* when max_rounds >= 2; under max_rounds = 1 the state of the synthesis is
\* returned, with approval_count 0 and no summary, and consensus_reached is
\* false whenever the quorum is positive.
C36_NoConsensusHasSummaryAfterCritiques ==
    /\ NoConsensus => HasSummary <=> TheResult.rounds_completed >= 2
    /\ NoConsensus => TheResult.rounds_completed >= 2 <=> config.max_rounds >= 2
    /\ Returned /\ config.max_rounds = 1 =>
          /\ ~HasSummary
          /\ TheResult.mediator_state.approval_count = 0
          /\ TheResult.consensus_reached <=> quorum(config) = 0

\* A two-round run stopped by max_rounds_reached without consensus carries a summary.
C36_Witness ==
    /\ NoConsensus
    /\ config.max_rounds = 2
    /\ stop_reason = "max_rounds_reached"
    /\ HasSummary


\* ------------------------------------------------------------------------
\* Claim about the budget accounting of a run (Spec)
\* ------------------------------------------------------------------------
\* The failures a run may end with: the quorum gate's and the mediator's.
GateOrMediatorFailure ==
    TheError.kind \in { "ZeroResponseError", "QuorumError", "ProviderError", "ParseError" }

\* C37: with max_context_tokens configured, no run is ended by the budget
\* accounting: whatever the sizes of the answers and critiques, a run that
\* raises does so with a zero-response, quorum or mediator failure, never from
\* track_usage or ContextBudget.
C37_BudgetNeverAborts ==
    (Raised /\ ~IsNone(config.max_context_tokens)) => GateOrMediatorFailure


\* ------------------------------------------------------------------------
\* Claim about the confidence label of a summary (SpecQuorumRun)
\* ------------------------------------------------------------------------
\* The labels a summary text carries: the symbol after each "Confidence: ".
ConfidenceLabels(text) ==
    { text[i + 1] : i \in { j \in 1..(Len(text) - 1) : text[j] = "Confidence: " } }

ReturnedSummary == Get(TheResult.mediator_state.disagreement_summary)

ParseFailures ==
    { i \in 1..Len(calls) : ~IsNone(calls[i].raised) /\ Get(calls[i].raised) = ParseError }

\* C39: an invocation of fn that raises a ParseError is never followed by a
\* backoff sleep or another invocation, whatever max_retries is: the error
\* propagates at once, so a call whose first invocation fails to parse ends
\* after exactly one invocation and no sleep.
C39_ParseErrorNeverRetried ==
    \A i \in ParseFailures :
        /\ i = Invocations
        /\ Raised
        /\ error = Some(ParseError)
        /\ Sleeps = i - 1
        /\ \A j \in 1..(i - 1) : RetryableFailure(j)

\* A parse failure on the first invocation with three retries allowed.
C39_Witness ==
    /\ Raised
    /\ Get(probe).max_retries = 3
    /\ ParseFailures = { 1 }
    /\ Invocations = 1
    /\ Sleeps = 0


\* ------------------------------------------------------------------------
\* Claim about the edit distance behind the change ratio (SpecRatio)
\* ------------------------------------------------------------------------
\* The standard edit distance, by its defining recursion: the least number of
\* insertions, deletions and substitutions of a token that turn s into t.
RECURSIVE EditDistance(_, _)
EditDistance(s, t) ==
    IF Len(s) = 0 THEN Len(t)
    ELSE IF Len(t) = 0 THEN Len(s)
    ELSE TheOnly({ Min2(Min2(del + 1, ins + 1), sub + (IF Head(s) = Head(t) THEN 0 ELSE 1)) :
                     del \in { EditDistance(Tail(s), t) },
                     ins \in { EditDistance(s, Tail(t)) },
                     sub \in { EditDistance(Tail(s), Tail(t)) } })

\* C40: for all token sequences s and t, _levenshtein_distance(s, t) is the
\* standard edit distance of s and t; it is at most max(len(s), len(t)), so
\* compute_change_ratio lies in [0, 1], and the ratio is 1 when exactly one of
\* the texts has no token and 0 when neither has one.
C40_DistanceIsEditDistance ==
    pc \in { "ratio", "below_threshold", "returned" } =>
        \A i \in 1..Len(calls) :
        \E s \in { split(calls[i].text1) } :
        \E t \in { split(calls[i].text2) } :
        \E d \in { _levenshtein_distance(s, t) } :
        \E r \in { calls[i].returned } :
            /\ d = EditDistance(s, t)
            /\ d <= Max2(Len(s), Len(t))
            /\ 0 <= r[1] /\ r[1] <= r[2] /\ r[2] > 0
            /\ (Len(s) > 0 \/ Len(t) > 0) => r = << d, Max2(Len(s), Len(t)) >>
            /\ (Len(s) = 0) # (Len(t) = 0) => r[1] = r[2]
            /\ (Len(s) = 0 /\ Len(t) = 0) => r[1] = 0

\* "a b a" against "b a b": two edits (one deletion, one insertion), fewer
\* than the three substitutions; and the ratio 2/3.
C40_Witness ==
    /\ pc = "below_threshold"
    /\ RatioArgs.words1 = << << "a" >>, << "b" >>, << "a" >> >>
    /\ RatioArgs.words2 = << << "b" >>, << "a" >>, << "b" >> >>
    /\ calls[1].returned = << 2, 3 >>
    /\ calls[2].returned = << 2, 3 >>

====
